---------------------------- MODULE Spec2Model ----------------------------
(***************************************************************************)
(* A model of the review generator (src/src/utils/aiService.ts) and of the *)
(* dual-write card store (src/src/utils/storage.ts) of the RYPC review-    *)
(* card application.                                                       *)
(*                                                                         *)
(* A text is a sequence of UTF-16 code units, which is what JavaScript's   *)
(* String.length, charCodeAt and the regular expressions of the source     *)
(* work on.                                                                *)
(***************************************************************************)
EXTENDS Integers, Sequences, FiniteSets, TLC

(***************************************************************************)
(* Bounds of the model.                                                    *)
(***************************************************************************)
\* The largest maxRetries argument a generateReview call is given.
MaxRetriesBound == 2

\* The number of generateReview calls in one run.
MaxCalls == 2

\* The number of calls of the card store in one run.
MaxStorageCalls == 2

\* The number of calls of the card store that await Supabase at once.
MaxPending == 2

\* The number of calls of login and logout in one run.
MaxAuthCalls == 3

(***************************************************************************)
(* Program constants.                                                      *)
(***************************************************************************)
\* aiService.ts:302  charCount >= 155
MinChars == 155

\* aiService.ts:302  charCount <= 170
MaxChars == 170

\* aiService.ts:414  selectedFallback.substring(0, 167)
TruncateAt == 167

(***************************************************************************)
(* The texts of the model: what the language models answer, the business   *)
(* names of the requests, and the canned reviews of the source.            *)
(***************************************************************************)
\* The doctors at Smit Hospital explained every step of my delivery clearly. Nursing
\* staff stayed kind all night and the billing was transparent. So grateful.
\* (155 UTF-16 code units)
TextA ==
    << 84, 104, 101, 32, 100, 111, 99, 116, 111, 114, 115, 32, 97, 116, 32, 83, 109, 105, 116,
       32, 72, 111, 115, 112, 105, 116, 97, 108, 32, 101, 120, 112, 108, 97, 105, 110, 101, 100,
       32, 101, 118, 101, 114, 121, 32, 115, 116, 101, 112, 32, 111, 102, 32, 109, 121, 32, 100,
       101, 108, 105, 118, 101, 114, 121, 32, 99, 108, 101, 97, 114, 108, 121, 46, 32, 78, 117,
       114, 115, 105, 110, 103, 32, 115, 116, 97, 102, 102, 32, 115, 116, 97, 121, 101, 100, 32,
       107, 105, 110, 100, 32, 97, 108, 108, 32, 110, 105, 103, 104, 116, 32, 97, 110, 100, 32,
       116, 104, 101, 32, 98, 105, 108, 108, 105, 110, 103, 32, 119, 97, 115, 32, 116, 114, 97,
       110, 115, 112, 97, 114, 101, 110, 116, 46, 32, 83, 111, 32, 103, 114, 97, 116, 101, 102,
       117, 108, 46 >>

\* the doctors at smit hospital explained every step of my delivery clearly!  NURSING
\* STAFF stayed kind all night, and the billing was transparent... so grateful
\* (158 UTF-16 code units)
TextA2 ==
    << 116, 104, 101, 32, 100, 111, 99, 116, 111, 114, 115, 32, 97, 116, 32, 115, 109, 105, 116,
       32, 104, 111, 115, 112, 105, 116, 97, 108, 32, 101, 120, 112, 108, 97, 105, 110, 101, 100,
       32, 101, 118, 101, 114, 121, 32, 115, 116, 101, 112, 32, 111, 102, 32, 109, 121, 32, 100,
       101, 108, 105, 118, 101, 114, 121, 32, 99, 108, 101, 97, 114, 108, 121, 33, 32, 32, 78,
       85, 82, 83, 73, 78, 71, 32, 83, 84, 65, 70, 70, 32, 115, 116, 97, 121, 101, 100, 32, 107,
       105, 110, 100, 32, 97, 108, 108, 32, 110, 105, 103, 104, 116, 44, 32, 97, 110, 100, 32,
       116, 104, 101, 32, 98, 105, 108, 108, 105, 110, 103, 32, 119, 97, 115, 32, 116, 114, 97,
       110, 115, 112, 97, 114, 101, 110, 116, 46, 46, 46, 32, 115, 111, 32, 103, 114, 97, 116,
       101, 102, 117, 108 >>

\* Came here for prenatal checkups and never waited long. The nursing staff remembered
\* my name, rooms were spotless and reports arrived on time. Good value too.
\* (157 UTF-16 code units)
TextB ==
    << 67, 97, 109, 101, 32, 104, 101, 114, 101, 32, 102, 111, 114, 32, 112, 114, 101, 110, 97,
       116, 97, 108, 32, 99, 104, 101, 99, 107, 117, 112, 115, 32, 97, 110, 100, 32, 110, 101,
       118, 101, 114, 32, 119, 97, 105, 116, 101, 100, 32, 108, 111, 110, 103, 46, 32, 84, 104,
       101, 32, 110, 117, 114, 115, 105, 110, 103, 32, 115, 116, 97, 102, 102, 32, 114, 101, 109,
       101, 109, 98, 101, 114, 101, 100, 32, 109, 121, 32, 110, 97, 109, 101, 44, 32, 114, 111,
       111, 109, 115, 32, 119, 101, 114, 101, 32, 115, 112, 111, 116, 108, 101, 115, 115, 32, 97,
       110, 100, 32, 114, 101, 112, 111, 114, 116, 115, 32, 97, 114, 114, 105, 118, 101, 100, 32,
       111, 110, 32, 116, 105, 109, 101, 46, 32, 71, 111, 111, 100, 32, 118, 97, 108, 117, 101,
       32, 116, 111, 111, 46 >>

\* My mother had surgery here last month and recovered very well. Consultation felt
\* unhurried, equipment looked modern, while the pharmacy downstairs saved us several
\* trips.
\* (170 UTF-16 code units)
TextD ==
    << 77, 121, 32, 109, 111, 116, 104, 101, 114, 32, 104, 97, 100, 32, 115, 117, 114, 103, 101,
       114, 121, 32, 104, 101, 114, 101, 32, 108, 97, 115, 116, 32, 109, 111, 110, 116, 104, 32,
       97, 110, 100, 32, 114, 101, 99, 111, 118, 101, 114, 101, 100, 32, 118, 101, 114, 121, 32,
       119, 101, 108, 108, 46, 32, 67, 111, 110, 115, 117, 108, 116, 97, 116, 105, 111, 110, 32,
       102, 101, 108, 116, 32, 117, 110, 104, 117, 114, 114, 105, 101, 100, 44, 32, 101, 113,
       117, 105, 112, 109, 101, 110, 116, 32, 108, 111, 111, 107, 101, 100, 32, 109, 111, 100,
       101, 114, 110, 44, 32, 119, 104, 105, 108, 101, 32, 116, 104, 101, 32, 112, 104, 97, 114,
       109, 97, 99, 121, 32, 100, 111, 119, 110, 115, 116, 97, 105, 114, 115, 32, 115, 97, 118,
       101, 100, 32, 117, 115, 32, 115, 101, 118, 101, 114, 97, 108, 32, 116, 114, 105, 112, 115,
       46 >>

\* Quick appointment, gentle doctors, clean wards and honest fees. Billing desk
\* answered each question without fuss. Our family will return for yearly checkups now!
\* (161 UTF-16 code units)
TextW ==
    << 81, 117, 105, 99, 107, 32, 97, 112, 112, 111, 105, 110, 116, 109, 101, 110, 116, 44, 32,
       103, 101, 110, 116, 108, 101, 32, 100, 111, 99, 116, 111, 114, 115, 44, 32, 99, 108, 101,
       97, 110, 32, 119, 97, 114, 100, 115, 32, 97, 110, 100, 32, 104, 111, 110, 101, 115, 116,
       32, 102, 101, 101, 115, 46, 32, 66, 105, 108, 108, 105, 110, 103, 32, 100, 101, 115, 107,
       32, 97, 110, 115, 119, 101, 114, 101, 100, 32, 101, 97, 99, 104, 32, 113, 117, 101, 115,
       116, 105, 111, 110, 32, 119, 105, 116, 104, 111, 117, 116, 32, 102, 117, 115, 115, 46, 32,
       79, 117, 114, 32, 102, 97, 109, 105, 108, 121, 32, 119, 105, 108, 108, 32, 114, 101, 116,
       117, 114, 110, 32, 102, 111, 114, 32, 121, 101, 97, 114, 108, 121, 32, 99, 104, 101, 99,
       107, 117, 112, 115, 32, 110, 111, 119, 33 >>

\* Quick, appointment; gentle, doctors; clean, wards, and, honest, fees? Billing, desk,
\* answered, each, question, without, fuss? Our, family, will, return, for, yearly,
\* checkups, now?
\* (180 UTF-16 code units)
TextWMarked ==
    << 81, 117, 105, 99, 107, 44, 32, 97, 112, 112, 111, 105, 110, 116, 109, 101, 110, 116, 59,
       32, 103, 101, 110, 116, 108, 101, 44, 32, 100, 111, 99, 116, 111, 114, 115, 59, 32, 99,
       108, 101, 97, 110, 44, 32, 119, 97, 114, 100, 115, 44, 32, 97, 110, 100, 44, 32, 104, 111,
       110, 101, 115, 116, 44, 32, 102, 101, 101, 115, 63, 32, 66, 105, 108, 108, 105, 110, 103,
       44, 32, 100, 101, 115, 107, 44, 32, 97, 110, 115, 119, 101, 114, 101, 100, 44, 32, 101,
       97, 99, 104, 44, 32, 113, 117, 101, 115, 116, 105, 111, 110, 44, 32, 119, 105, 116, 104,
       111, 117, 116, 44, 32, 102, 117, 115, 115, 63, 32, 79, 117, 114, 44, 32, 102, 97, 109,
       105, 108, 121, 44, 32, 119, 105, 108, 108, 44, 32, 114, 101, 116, 117, 114, 110, 44, 32,
       102, 111, 114, 44, 32, 121, 101, 97, 114, 108, 121, 44, 32, 99, 104, 101, 99, 107, 117,
       112, 115, 44, 32, 110, 111, 119, 63 >>

\* Emergency team handled our midnight visit calmly. Tests were done fast, medicines
\* explained twice, and follow up calls came the next morning. Impressive!!
\* (154 UTF-16 code units)
TextShort ==
    << 69, 109, 101, 114, 103, 101, 110, 99, 121, 32, 116, 101, 97, 109, 32, 104, 97, 110, 100,
       108, 101, 100, 32, 111, 117, 114, 32, 109, 105, 100, 110, 105, 103, 104, 116, 32, 118,
       105, 115, 105, 116, 32, 99, 97, 108, 109, 108, 121, 46, 32, 84, 101, 115, 116, 115, 32,
       119, 101, 114, 101, 32, 100, 111, 110, 101, 32, 102, 97, 115, 116, 44, 32, 109, 101, 100,
       105, 99, 105, 110, 101, 115, 32, 101, 120, 112, 108, 97, 105, 110, 101, 100, 32, 116, 119,
       105, 99, 101, 44, 32, 97, 110, 100, 32, 102, 111, 108, 108, 111, 119, 32, 117, 112, 32,
       99, 97, 108, 108, 115, 32, 99, 97, 109, 101, 32, 116, 104, 101, 32, 110, 101, 120, 116,
       32, 109, 111, 114, 110, 105, 110, 103, 46, 32, 73, 109, 112, 114, 101, 115, 115, 105, 118,
       101, 33, 33 >>

\* Stayed four days after a complicated delivery. Paediatrician visited daily,
\* lactation advice helped a lot, food was warm and visiting hours were flexible for my
\* relatives.
\* (171 UTF-16 code units)
TextLong ==
    << 83, 116, 97, 121, 101, 100, 32, 102, 111, 117, 114, 32, 100, 97, 121, 115, 32, 97, 102,
       116, 101, 114, 32, 97, 32, 99, 111, 109, 112, 108, 105, 99, 97, 116, 101, 100, 32, 100,
       101, 108, 105, 118, 101, 114, 121, 46, 32, 80, 97, 101, 100, 105, 97, 116, 114, 105, 99,
       105, 97, 110, 32, 118, 105, 115, 105, 116, 101, 100, 32, 100, 97, 105, 108, 121, 44, 32,
       108, 97, 99, 116, 97, 116, 105, 111, 110, 32, 97, 100, 118, 105, 99, 101, 32, 104, 101,
       108, 112, 101, 100, 32, 97, 32, 108, 111, 116, 44, 32, 102, 111, 111, 100, 32, 119, 97,
       115, 32, 119, 97, 114, 109, 32, 97, 110, 100, 32, 118, 105, 115, 105, 116, 105, 110, 103,
       32, 104, 111, 117, 114, 115, 32, 119, 101, 114, 101, 32, 102, 108, 101, 120, 105, 98, 108,
       101, 32, 102, 111, 114, 32, 109, 121, 32, 114, 101, 108, 97, 116, 105, 118, 101, 115, 46 >>

\* "Smit Hospital" (13 code units)
NameSmit ==
    << 83, 109, 105, 116, 32, 72, 111, 115, 112, 105, 116, 97, 108 >>

\* "Smit Hospital and Maternity Home" (32 code units)
NameMid ==
    << 83, 109, 105, 116, 32, 72, 111, 115, 112, 105, 116, 97, 108, 32, 97, 110, 100, 32, 77, 97,
       116, 101, 114, 110, 105, 116, 121, 32, 72, 111, 109, 101 >>

\* "Smit Gynec Hospital, Maternity and Newborn Care Centre, Surat" (61 code units)
NameLong ==
    << 83, 109, 105, 116, 32, 71, 121, 110, 101, 99, 32, 72, 111, 115, 112, 105, 116, 97, 108,
       44, 32, 77, 97, 116, 101, 114, 110, 105, 116, 121, 32, 97, 110, 100, 32, 78, 101, 119, 98,
       111, 114, 110, 32, 67, 97, 114, 101, 32, 67, 101, 110, 116, 114, 101, 44, 32, 83, 117,
       114, 97, 116 >>

\* The table of canned reviews, one pair of templates per star rating and language.
\* Each template is the text before and after the ${businessName} placeholder.
medicalFallbacks ==
    <<
    \* rating 1
    [
     English |-> <<
        \* aiService.ts:333  `Had issues with medical care at ${businessName}. Long waiting time and staff wasn't very helpful. Expected better treatment quality.`
        [pre |->
            << 72, 97, 100, 32, 105, 115, 115, 117, 101, 115, 32, 119, 105, 116, 104, 32, 109, 101, 100,
               105, 99, 97, 108, 32, 99, 97, 114, 101, 32, 97, 116, 32 >>,
         suf |->
            << 46, 32, 76, 111, 110, 103, 32, 119, 97, 105, 116, 105, 110, 103, 32, 116, 105, 109, 101,
               32, 97, 110, 100, 32, 115, 116, 97, 102, 102, 32, 119, 97, 115, 110, 39, 116, 32, 118,
               101, 114, 121, 32, 104, 101, 108, 112, 102, 117, 108, 46, 32, 69, 120, 112, 101, 99, 116,
               101, 100, 32, 98, 101, 116, 116, 101, 114, 32, 116, 114, 101, 97, 116, 109, 101, 110, 116,
               32, 113, 117, 97, 108, 105, 116, 121, 46 >>],
        \* aiService.ts:334  `Not satisfied with consultation. ${businessName} needs improvement in patient care and service quality. Disappointing experience.`
        [pre |->
            << 78, 111, 116, 32, 115, 97, 116, 105, 115, 102, 105, 101, 100, 32, 119, 105, 116, 104, 32,
               99, 111, 110, 115, 117, 108, 116, 97, 116, 105, 111, 110, 46, 32 >>,
         suf |->
            << 32, 110, 101, 101, 100, 115, 32, 105, 109, 112, 114, 111, 118, 101, 109, 101, 110, 116,
               32, 105, 110, 32, 112, 97, 116, 105, 101, 110, 116, 32, 99, 97, 114, 101, 32, 97, 110,
               100, 32, 115, 101, 114, 118, 105, 99, 101, 32, 113, 117, 97, 108, 105, 116, 121, 46, 32,
               68, 105, 115, 97, 112, 112, 111, 105, 110, 116, 105, 110, 103, 32, 101, 120, 112, 101,
               114, 105, 101, 110, 99, 101, 46 >>]
     >>,
     Hindi |-> <<
        \* aiService.ts:337  (Hindi script: 0 code units before and 90 after ${businessName})
        [pre |->
            << >>,
         suf |->
            << 32, 2350, 2375, 2306, 32, 2311, 2354, 2366, 2332, 32, 2360, 2375, 32, 2360, 2306, 2340,
               2369, 2359, 2381, 2335, 32, 2344, 2361, 2368, 2306, 32, 2361, 2370, 2306, 2404, 32, 2337,
               2377, 2325, 2381, 2335, 2352, 32, 2360, 2375, 32, 2350, 2367, 2354, 2344, 2375, 32, 2350,
               2375, 2306, 32, 2348, 2361, 2369, 2340, 32, 2342, 2375, 2352, 32, 2354, 2327, 2368, 32,
               2324, 2352, 32, 2360, 2381, 2335, 2366, 2347, 32, 2349, 2368, 32, 2360, 2361, 2366, 2351,
               2325, 32, 2344, 2361, 2368, 2306, 32, 2341, 2366, 2404 >>],
        \* aiService.ts:338  (Hindi script: 37 code units before and 42 after ${businessName})
        [pre |->
            << 2330, 2367, 2325, 2367, 2340, 2381, 2360, 2366, 32, 2360, 2375, 2357, 2366, 32, 2350,
               2375, 2306, 32, 2360, 2369, 2343, 2366, 2352, 32, 2325, 2368, 32, 2332, 2352, 2370, 2352,
               2340, 32, 2361, 2376, 2404, 32 >>,
         suf |->
            << 32, 2350, 2375, 2306, 32, 2309, 2344, 2369, 2349, 2357, 32, 2344, 2367, 2352, 2366, 2358,
               2366, 2332, 2344, 2325, 32, 2352, 2361, 2366, 2404, 32, 2348, 2375, 2361, 2340, 2352, 32,
               2313, 2350, 2381, 2350, 2368, 2342, 32, 2341, 2368, 2404 >>]
     >>,
     Gujarati |-> <<
        \* aiService.ts:341  (Gujarati script: 0 code units before and 89 after ${businessName})
        [pre |->
            << >>,
         suf |->
            << 32, 2734, 2750, 2690, 32, 2724, 2732, 2752, 2732, 2752, 32, 2744, 2759, 2741, 2750, 2734,
               2750, 2690, 32, 2744, 2734, 2744, 2765, 2735, 2750, 32, 2745, 2724, 2752, 2404, 32, 2721,
               2761, 2709, 2765, 2719, 2736, 2728, 2759, 32, 2734, 2739, 2741, 2750, 2734, 2750, 2690,
               32, 2712, 2723, 2763, 32, 2744, 2734, 2735, 32, 2738, 2750, 2711, 2765, 2735, 2763, 32,
               2693, 2728, 2759, 32, 2744, 2765, 2719, 2750, 2731, 32, 2730, 2723, 32, 2734, 2726, 2726,
               2736, 2754, 2730, 32, 2728, 2745, 2763, 2724, 2763, 46 >>],
        \* aiService.ts:342  (Gujarati script: 39 code units before and 31 after ${businessName})
        [pre |->
            << 2744, 2750, 2736, 2741, 2750, 2736, 2728, 2752, 32, 2711, 2753, 2723, 2741, 2724, 2765,
               2724, 2750, 2734, 2750, 2690, 32, 2744, 2753, 2727, 2750, 2736, 2750, 2728, 2752, 32,
               2716, 2736, 2754, 2736, 32, 2715, 2759, 46, 32 >>,
         suf |->
            << 32, 2734, 2750, 2690, 32, 2693, 2728, 2753, 2733, 2741, 32, 2728, 2751, 2736, 2750, 2742,
               2750, 2716, 2728, 2709, 32, 2736, 2745, 2765, 2735, 2763, 32, 2745, 2724, 2763, 46 >>]
     >>
    ],
    \* rating 2
    [
     English |-> <<
        \* aiService.ts:347  `Average medical experience at ${businessName}. Some good aspects but room for improvement in patient care and facility management.`
        [pre |->
            << 65, 118, 101, 114, 97, 103, 101, 32, 109, 101, 100, 105, 99, 97, 108, 32, 101, 120, 112,
               101, 114, 105, 101, 110, 99, 101, 32, 97, 116, 32 >>,
         suf |->
            << 46, 32, 83, 111, 109, 101, 32, 103, 111, 111, 100, 32, 97, 115, 112, 101, 99, 116, 115,
               32, 98, 117, 116, 32, 114, 111, 111, 109, 32, 102, 111, 114, 32, 105, 109, 112, 114, 111,
               118, 101, 109, 101, 110, 116, 32, 105, 110, 32, 112, 97, 116, 105, 101, 110, 116, 32, 99,
               97, 114, 101, 32, 97, 110, 100, 32, 102, 97, 99, 105, 108, 105, 116, 121, 32, 109, 97,
               110, 97, 103, 101, 109, 101, 110, 116, 46 >>],
        \* aiService.ts:348  `Mixed experience with treatment. ${businessName} has potential but needs better organization and patient handling.`
        [pre |->
            << 77, 105, 120, 101, 100, 32, 101, 120, 112, 101, 114, 105, 101, 110, 99, 101, 32, 119, 105,
               116, 104, 32, 116, 114, 101, 97, 116, 109, 101, 110, 116, 46, 32 >>,
         suf |->
            << 32, 104, 97, 115, 32, 112, 111, 116, 101, 110, 116, 105, 97, 108, 32, 98, 117, 116, 32,
               110, 101, 101, 100, 115, 32, 98, 101, 116, 116, 101, 114, 32, 111, 114, 103, 97, 110, 105,
               122, 97, 116, 105, 111, 110, 32, 97, 110, 100, 32, 112, 97, 116, 105, 101, 110, 116, 32,
               104, 97, 110, 100, 108, 105, 110, 103, 46 >>]
     >>,
     Hindi |-> <<
        \* aiService.ts:351  (Hindi script: 0 code units before and 93 after ${businessName})
        [pre |->
            << >>,
         suf |->
            << 32, 2350, 2375, 2306, 32, 2324, 2360, 2340, 32, 2330, 2367, 2325, 2367, 2340, 2381, 2360,
               2366, 32, 2309, 2344, 2369, 2349, 2357, 32, 2352, 2361, 2366, 2404, 32, 2325, 2369, 2331,
               32, 2309, 2330, 2381, 2331, 2375, 32, 2346, 2361, 2354, 2370, 32, 2341, 2375, 32, 2354,
               2375, 2325, 2367, 2344, 32, 2350, 2352, 2368, 2332, 2364, 2379, 2306, 32, 2325, 2368, 32,
               2342, 2375, 2326, 2349, 2366, 2354, 32, 2350, 2375, 2306, 32, 2360, 2369, 2343, 2366,
               2352, 32, 2325, 2368, 32, 2332, 2352, 2370, 2352, 2340, 32, 2361, 2376, 2404 >>],
        \* aiService.ts:352  (Hindi script: 27 code units before and 49 after ${businessName})
        [pre |->
            << 2311, 2354, 2366, 2332, 32, 2325, 2366, 32, 2350, 2367, 2358, 2381, 2352, 2367, 2340, 32,
               2309, 2344, 2369, 2349, 2357, 32, 2352, 2361, 2366, 2404, 32 >>,
         suf |->
            << 32, 2350, 2375, 2306, 32, 2360, 2306, 2349, 2366, 2357, 2344, 2366, 32, 2361, 2376, 32,
               2354, 2375, 2325, 2367, 2344, 32, 2348, 2375, 2361, 2340, 2352, 32, 2357, 2381, 2351,
               2357, 2360, 2381, 2341, 2366, 32, 2325, 2368, 32, 2332, 2352, 2370, 2352, 2340, 32, 2361,
               2376, 2404 >>]
     >>,
     Gujarati |-> <<
        \* aiService.ts:355  (Gujarati script: 0 code units before and 91 after ${businessName})
        [pre |->
            << >>,
         suf |->
            << 32, 2734, 2750, 2690, 32, 2744, 2736, 2759, 2736, 2750, 2742, 32, 2724, 2732, 2752, 2732,
               2752, 32, 2693, 2728, 2753, 2733, 2741, 32, 2736, 2745, 2765, 2735, 2763, 46, 32, 2709,
               2759, 2719, 2738, 2750, 2709, 32, 2744, 2750, 2736, 2750, 32, 2730, 2750, 2744, 2750,
               2690, 32, 2745, 2724, 2750, 32, 2730, 2723, 32, 2726, 2736, 2765, 2726, 2752, 2707, 2728,
               2752, 32, 2744, 2690, 2733, 2750, 2739, 2734, 2750, 2690, 32, 2744, 2753, 2727, 2750,
               2736, 2750, 2728, 2752, 32, 2716, 2736, 2754, 2736, 32, 2715, 2759, 46 >>],
        \* aiService.ts:356  (Gujarati script: 28 code units before and 47 after ${businessName})
        [pre |->
            << 2744, 2750, 2736, 2741, 2750, 2736, 2728, 2763, 32, 2734, 2751, 2742, 2765, 2736, 32,
               2693, 2728, 2753, 2733, 2741, 32, 2736, 2745, 2765, 2735, 2763, 46, 32 >>,
         suf |->
            << 32, 2734, 2750, 2690, 32, 2744, 2690, 2733, 2750, 2741, 2728, 2750, 32, 2715, 2759, 32,
               2730, 2723, 32, 2741, 2727, 2753, 32, 2744, 2750, 2736, 2752, 32, 2741, 2765, 2735, 2741,
               2744, 2765, 2725, 2750, 2728, 2752, 32, 2716, 2736, 2754, 2736, 32, 2715, 2759, 46 >>]
     >>
    ],
    \* rating 3
    [
     English |-> <<
        \* aiService.ts:361  `Good medical care at ${businessName}. Doctors were knowledgeable and staff was helpful. Overall satisfied with treatment quality.`
        [pre |->
            << 71, 111, 111, 100, 32, 109, 101, 100, 105, 99, 97, 108, 32, 99, 97, 114, 101, 32, 97, 116,
               32 >>,
         suf |->
            << 46, 32, 68, 111, 99, 116, 111, 114, 115, 32, 119, 101, 114, 101, 32, 107, 110, 111, 119,
               108, 101, 100, 103, 101, 97, 98, 108, 101, 32, 97, 110, 100, 32, 115, 116, 97, 102, 102,
               32, 119, 97, 115, 32, 104, 101, 108, 112, 102, 117, 108, 46, 32, 79, 118, 101, 114, 97,
               108, 108, 32, 115, 97, 116, 105, 115, 102, 105, 101, 100, 32, 119, 105, 116, 104, 32, 116,
               114, 101, 97, 116, 109, 101, 110, 116, 32, 113, 117, 97, 108, 105, 116, 121, 46 >>],
        \* aiService.ts:362  `Decent healthcare experience. ${businessName} provided good consultation and proper treatment. Would recommend for medical needs.`
        [pre |->
            << 68, 101, 99, 101, 110, 116, 32, 104, 101, 97, 108, 116, 104, 99, 97, 114, 101, 32, 101,
               120, 112, 101, 114, 105, 101, 110, 99, 101, 46, 32 >>,
         suf |->
            << 32, 112, 114, 111, 118, 105, 100, 101, 100, 32, 103, 111, 111, 100, 32, 99, 111, 110, 115,
               117, 108, 116, 97, 116, 105, 111, 110, 32, 97, 110, 100, 32, 112, 114, 111, 112, 101, 114,
               32, 116, 114, 101, 97, 116, 109, 101, 110, 116, 46, 32, 87, 111, 117, 108, 100, 32, 114,
               101, 99, 111, 109, 109, 101, 110, 100, 32, 102, 111, 114, 32, 109, 101, 100, 105, 99, 97,
               108, 32, 110, 101, 101, 100, 115, 46 >>]
     >>,
     Hindi |-> <<
        \* aiService.ts:365  (Hindi script: 0 code units before and 99 after ${businessName})
        [pre |->
            << >>,
         suf |->
            << 32, 2350, 2375, 2306, 32, 2309, 2330, 2381, 2331, 2368, 32, 2330, 2367, 2325, 2367, 2340,
               2381, 2360, 2366, 32, 2360, 2375, 2357, 2366, 32, 2350, 2367, 2354, 2368, 2404, 32, 2337,
               2377, 2325, 2381, 2335, 2352, 32, 2332, 2366, 2344, 2325, 2366, 2352, 32, 2341, 2375, 32,
               2324, 2352, 32, 2360, 2381, 2335, 2366, 2347, 32, 2360, 2361, 2366, 2351, 2325, 32, 2341,
               2366, 2404, 32, 2311, 2354, 2366, 2332, 32, 2325, 2368, 32, 2327, 2369, 2339, 2357, 2340,
               2381, 2340, 2366, 32, 2360, 2375, 32, 2360, 2306, 2340, 2369, 2359, 2381, 2335, 32, 2361,
               2370, 2306, 2404 >>],
        \* aiService.ts:366  (Hindi script: 32 code units before and 47 after ${businessName})
        [pre |->
            << 2309, 2330, 2381, 2331, 2366, 32, 2360, 2381, 2357, 2366, 2360, 2381, 2341, 2381, 2351,
               32, 2360, 2375, 2357, 2366, 32, 2309, 2344, 2369, 2349, 2357, 32, 2352, 2361, 2366, 2404,
               32 >>,
         suf |->
            << 32, 2350, 2375, 2306, 32, 2313, 2330, 2367, 2340, 32, 2346, 2352, 2366, 2350, 2352, 2381,
               2358, 32, 2324, 2352, 32, 2311, 2354, 2366, 2332, 32, 2350, 2367, 2354, 2366, 2404, 32,
               2360, 2367, 2347, 2366, 2352, 2367, 2358, 32, 2325, 2352, 2370, 2306, 2327, 2366, 2404 >>]
     >>,
     Gujarati |-> <<
        \* aiService.ts:369  (Gujarati script: 0 code units before and 99 after ${businessName})
        [pre |->
            << >>,
         suf |->
            << 32, 2734, 2750, 2690, 32, 2744, 2750, 2736, 2752, 32, 2724, 2732, 2752, 2732, 2752, 32,
               2744, 2759, 2741, 2750, 32, 2734, 2739, 2752, 46, 32, 2721, 2761, 2709, 2765, 2719, 2736,
               2763, 32, 2716, 2750, 2723, 2709, 2750, 2736, 32, 2745, 2724, 2750, 32, 2693, 2728, 2759,
               32, 2744, 2765, 2719, 2750, 2731, 32, 2734, 2726, 2726, 2736, 2754, 2730, 32, 2745, 2724,
               2763, 46, 32, 2744, 2750, 2736, 2741, 2750, 2736, 2728, 2752, 32, 2711, 2753, 2723, 2741,
               2724, 2765, 2724, 2750, 2725, 2752, 32, 2744, 2690, 2724, 2753, 2743, 2765, 2719, 32,
               2715, 2753, 2690, 46 >>],
        \* aiService.ts:370  (Gujarati script: 30 code units before and 43 after ${businessName})
        [pre |->
            << 2744, 2750, 2736, 2763, 32, 2694, 2736, 2763, 2711, 2765, 2735, 32, 2744, 2759, 2741,
               2750, 32, 2693, 2728, 2753, 2733, 2741, 32, 2736, 2745, 2765, 2735, 2763, 46, 32 >>,
         suf |->
            << 32, 2734, 2750, 2690, 32, 2735, 2763, 2711, 2765, 2735, 32, 2744, 2738, 2750, 2745, 32,
               2693, 2728, 2759, 32, 2744, 2750, 2736, 2741, 2750, 2736, 32, 2734, 2739, 2752, 46, 32,
               2733, 2738, 2750, 2734, 2723, 32, 2709, 2736, 2752, 2742, 46 >>]
     >>
    ],
    \* rating 4
    [
     English |-> <<
        \* aiService.ts:375  `Excellent medical care at ${businessName}! Professional doctors and caring staff. Very satisfied with treatment and would highly recommend.`
        [pre |->
            << 69, 120, 99, 101, 108, 108, 101, 110, 116, 32, 109, 101, 100, 105, 99, 97, 108, 32, 99,
               97, 114, 101, 32, 97, 116, 32 >>,
         suf |->
            << 33, 32, 80, 114, 111, 102, 101, 115, 115, 105, 111, 110, 97, 108, 32, 100, 111, 99, 116,
               111, 114, 115, 32, 97, 110, 100, 32, 99, 97, 114, 105, 110, 103, 32, 115, 116, 97, 102,
               102, 46, 32, 86, 101, 114, 121, 32, 115, 97, 116, 105, 115, 102, 105, 101, 100, 32, 119,
               105, 116, 104, 32, 116, 114, 101, 97, 116, 109, 101, 110, 116, 32, 97, 110, 100, 32, 119,
               111, 117, 108, 100, 32, 104, 105, 103, 104, 108, 121, 32, 114, 101, 99, 111, 109, 109,
               101, 110, 100, 46 >>],
        \* aiService.ts:376  `Great healthcare experience. ${businessName} provided top-quality medical service with expert doctors. Highly recommend to others.`
        [pre |->
            << 71, 114, 101, 97, 116, 32, 104, 101, 97, 108, 116, 104, 99, 97, 114, 101, 32, 101, 120,
               112, 101, 114, 105, 101, 110, 99, 101, 46, 32 >>,
         suf |->
            << 32, 112, 114, 111, 118, 105, 100, 101, 100, 32, 116, 111, 112, 45, 113, 117, 97, 108, 105,
               116, 121, 32, 109, 101, 100, 105, 99, 97, 108, 32, 115, 101, 114, 118, 105, 99, 101, 32,
               119, 105, 116, 104, 32, 101, 120, 112, 101, 114, 116, 32, 100, 111, 99, 116, 111, 114,
               115, 46, 32, 72, 105, 103, 104, 108, 121, 32, 114, 101, 99, 111, 109, 109, 101, 110, 100,
               32, 116, 111, 32, 111, 116, 104, 101, 114, 115, 46 >>]
     >>,
     Hindi |-> <<
        \* aiService.ts:379  (Hindi script: 0 code units before and 95 after ${businessName})
        [pre |->
            << >>,
         suf |->
            << 32, 2350, 2375, 2306, 32, 2313, 2340, 2381, 2325, 2371, 2359, 2381, 2335, 32, 2330, 2367,
               2325, 2367, 2340, 2381, 2360, 2366, 32, 2360, 2375, 2357, 2366, 33, 32, 2346, 2375, 2358,
               2375, 2357, 2352, 32, 2337, 2377, 2325, 2381, 2335, 2352, 32, 2324, 2352, 32, 2342, 2375,
               2326, 2349, 2366, 2354, 32, 2325, 2352, 2344, 2375, 32, 2357, 2366, 2354, 2366, 32, 2360,
               2381, 2335, 2366, 2347, 2404, 32, 2311, 2354, 2366, 2332, 32, 2360, 2375, 32, 2348, 2361,
               2369, 2340, 32, 2360, 2306, 2340, 2369, 2359, 2381, 2335, 32, 2361, 2370, 2306, 2404 >>],
        \* aiService.ts:380  (Hindi script: 33 code units before and 57 after ${businessName})
        [pre |->
            << 2358, 2366, 2344, 2342, 2366, 2352, 32, 2360, 2381, 2357, 2366, 2360, 2381, 2341, 2381,
               2351, 32, 2360, 2375, 2357, 2366, 32, 2309, 2344, 2369, 2349, 2357, 32, 2352, 2361, 2366,
               2404, 32 >>,
         suf |->
            << 32, 2350, 2375, 2306, 32, 2357, 2367, 2358, 2375, 2359, 2332, 2381, 2334, 32, 2337, 2377,
               2325, 2381, 2335, 2352, 2379, 2306, 32, 2325, 2375, 32, 2360, 2366, 2341, 32, 2313, 2330,
               2381, 2330, 32, 2327, 2369, 2339, 2357, 2340, 2381, 2340, 2366, 32, 2325, 2368, 32, 2360,
               2375, 2357, 2366, 32, 2350, 2367, 2354, 2368, 2404 >>]
     >>,
     Gujarati |-> <<
        \* aiService.ts:383  (Gujarati script: 0 code units before and 95 after ${businessName})
        [pre |->
            << >>,
         suf |->
            << 32, 2734, 2750, 2690, 32, 2697, 2724, 2765, 2709, 2755, 2743, 2765, 2719, 32, 2724, 2732,
               2752, 2732, 2752, 32, 2744, 2759, 2741, 2750, 33, 32, 2741, 2765, 2735, 2750, 2741, 2744,
               2750, 2735, 2751, 2709, 32, 2721, 2761, 2709, 2765, 2719, 2736, 2763, 32, 2693, 2728,
               2759, 32, 2744, 2690, 2733, 2750, 2739, 32, 2736, 2750, 2710, 2728, 2750, 2736, 2763, 32,
               2744, 2765, 2719, 2750, 2731, 46, 32, 2744, 2750, 2736, 2741, 2750, 2736, 2725, 2752, 32,
               2710, 2754, 2732, 32, 2744, 2690, 2724, 2753, 2743, 2765, 2719, 32, 2715, 2753, 2690, 46 >>],
        \* aiService.ts:384  (Gujarati script: 32 code units before and 51 after ${businessName})
        [pre |->
            << 2742, 2750, 2728, 2726, 2750, 2736, 32, 2694, 2736, 2763, 2711, 2765, 2735, 32, 2744,
               2759, 2741, 2750, 32, 2693, 2728, 2753, 2733, 2741, 32, 2736, 2745, 2765, 2735, 2763, 46,
               32 >>,
         suf |->
            << 32, 2734, 2750, 2690, 32, 2728, 2751, 2743, 2765, 2723, 2750, 2724, 32, 2721, 2761, 2709,
               2765, 2719, 2736, 2763, 32, 2744, 2750, 2725, 2759, 32, 2697, 2714, 2765, 2714, 32, 2711,
               2753, 2723, 2741, 2724, 2765, 2724, 2750, 2728, 2752, 32, 2744, 2759, 2741, 2750, 32,
               2734, 2739, 2752, 46 >>]
     >>
    ],
    \* rating 5
    [
     English |-> <<
        \* aiService.ts:389  `Outstanding medical care at ${businessName}! Exceptional doctors, excellent staff, and top-quality treatment. Highly recommend to everyone!`
        [pre |->
            << 79, 117, 116, 115, 116, 97, 110, 100, 105, 110, 103, 32, 109, 101, 100, 105, 99, 97, 108,
               32, 99, 97, 114, 101, 32, 97, 116, 32 >>,
         suf |->
            << 33, 32, 69, 120, 99, 101, 112, 116, 105, 111, 110, 97, 108, 32, 100, 111, 99, 116, 111,
               114, 115, 44, 32, 101, 120, 99, 101, 108, 108, 101, 110, 116, 32, 115, 116, 97, 102, 102,
               44, 32, 97, 110, 100, 32, 116, 111, 112, 45, 113, 117, 97, 108, 105, 116, 121, 32, 116,
               114, 101, 97, 116, 109, 101, 110, 116, 46, 32, 72, 105, 103, 104, 108, 121, 32, 114, 101,
               99, 111, 109, 109, 101, 110, 100, 32, 116, 111, 32, 101, 118, 101, 114, 121, 111, 110,
               101, 33 >>],
        \* aiService.ts:390  `Absolutely excellent healthcare! ${businessName} provided world-class medical service with caring doctors. Perfect experience, 5 stars!`
        [pre |->
            << 65, 98, 115, 111, 108, 117, 116, 101, 108, 121, 32, 101, 120, 99, 101, 108, 108, 101, 110,
               116, 32, 104, 101, 97, 108, 116, 104, 99, 97, 114, 101, 33, 32 >>,
         suf |->
            << 32, 112, 114, 111, 118, 105, 100, 101, 100, 32, 119, 111, 114, 108, 100, 45, 99, 108, 97,
               115, 115, 32, 109, 101, 100, 105, 99, 97, 108, 32, 115, 101, 114, 118, 105, 99, 101, 32,
               119, 105, 116, 104, 32, 99, 97, 114, 105, 110, 103, 32, 100, 111, 99, 116, 111, 114, 115,
               46, 32, 80, 101, 114, 102, 101, 99, 116, 32, 101, 120, 112, 101, 114, 105, 101, 110, 99,
               101, 44, 32, 53, 32, 115, 116, 97, 114, 115, 33 >>]
     >>,
     Hindi |-> <<
        \* aiService.ts:393  (Hindi script: 0 code units before and 99 after ${businessName})
        [pre |->
            << >>,
         suf |->
            << 32, 2350, 2375, 2306, 32, 2309, 2342, 2381, 2349, 2369, 2340, 32, 2330, 2367, 2325, 2367,
               2340, 2381, 2360, 2366, 32, 2360, 2375, 2357, 2366, 33, 32, 2309, 2360, 2366, 2343, 2366,
               2352, 2339, 32, 2337, 2377, 2325, 2381, 2335, 2352, 44, 32, 2313, 2340, 2381, 2325, 2371,
               2359, 2381, 2335, 32, 2360, 2381, 2335, 2366, 2347, 32, 2324, 2352, 32, 2313, 2330, 2381,
               2330, 32, 2327, 2369, 2339, 2357, 2340, 2381, 2340, 2366, 32, 2325, 2366, 32, 2311, 2354,
               2366, 2332, 2404, 32, 2360, 2349, 2368, 32, 2325, 2379, 32, 2360, 2367, 2347, 2366, 2352,
               2367, 2358, 33 >>],
        \* aiService.ts:394  (Hindi script: 33 code units before and 61 after ${businessName})
        [pre |->
            << 2348, 2367, 2354, 2381, 2325, 2369, 2354, 32, 2313, 2340, 2381, 2325, 2371, 2359, 2381,
               2335, 32, 2360, 2381, 2357, 2366, 2360, 2381, 2341, 2381, 2351, 32, 2360, 2375, 2357,
               2366, 33, 32 >>,
         suf |->
            << 32, 2350, 2375, 2306, 32, 2342, 2375, 2326, 2349, 2366, 2354, 32, 2325, 2352, 2344, 2375,
               32, 2357, 2366, 2354, 2375, 32, 2337, 2377, 2325, 2381, 2335, 2352, 2379, 2306, 32, 2325,
               2375, 32, 2360, 2366, 2341, 32, 2357, 2367, 2358, 2381, 2357, 32, 2360, 2381, 2340, 2352,
               2368, 2351, 32, 2360, 2375, 2357, 2366, 32, 2350, 2367, 2354, 2368, 2404 >>]
     >>,
     Gujarati |-> <<
        \* aiService.ts:397  (Gujarati script: 0 code units before and 96 after ${businessName})
        [pre |->
            << >>,
         suf |->
            << 32, 2734, 2750, 2690, 32, 2693, 2726, 2765, 2733, 2753, 2724, 32, 2724, 2732, 2752, 2732,
               2752, 32, 2744, 2759, 2741, 2750, 33, 32, 2693, 2744, 2750, 2727, 2750, 2736, 2723, 32,
               2721, 2761, 2709, 2765, 2719, 2736, 2763, 44, 32, 2697, 2724, 2765, 2709, 2755, 2743,
               2765, 2719, 32, 2744, 2765, 2719, 2750, 2731, 32, 2693, 2728, 2759, 32, 2697, 2714, 2765,
               2714, 32, 2711, 2753, 2723, 2741, 2724, 2765, 2724, 2750, 2728, 2752, 32, 2744, 2750,
               2736, 2741, 2750, 2736, 46, 32, 2732, 2727, 2750, 2728, 2759, 32, 2733, 2738, 2750, 2734,
               2723, 33 >>],
        \* aiService.ts:398  (Gujarati script: 29 code units before and 54 after ${businessName})
        [pre |->
            << 2732, 2751, 2738, 2709, 2753, 2738, 32, 2697, 2724, 2765, 2709, 2755, 2743, 2765, 2719,
               32, 2694, 2736, 2763, 2711, 2765, 2735, 32, 2744, 2759, 2741, 2750, 33, 32 >>,
         suf |->
            << 32, 2734, 2750, 2690, 32, 2744, 2690, 2733, 2750, 2739, 32, 2736, 2750, 2710, 2728, 2750,
               2736, 2750, 32, 2721, 2761, 2709, 2765, 2719, 2736, 2763, 32, 2744, 2750, 2725, 2759, 32,
               2741, 2751, 2742, 2765, 2741, 32, 2744, 2765, 2724, 2736, 2752, 2735, 32, 2744, 2759,
               2741, 2750, 32, 2734, 2739, 2752, 46 >>]
     >>
    ]
    >>
(***************************************************************************)
(* Strings: the JavaScript string operations the source uses.              *)
(***************************************************************************)
\* The characters matched by \s in a JavaScript regular expression, which are
\* also the ones String.prototype.trim removes.
WhiteSpace ==
    {9, 10, 11, 12, 13, 32, 160, 5760, 8232, 8233, 8239, 8287, 12288, 65279}
        \cup (8192..8202)

\* The characters matched by \w (no unicode flag): [A-Za-z0-9_].
IsWordChar(c) ==
    \/ c \in 48..57
    \/ c \in 65..90
    \/ c = 95
    \/ c \in 97..122

\* String.prototype.toLowerCase on the texts of this model: ASCII letters are
\* folded, Devanagari and Gujarati have no case.
ToLowerCase(s) ==
    [i \in 1..Len(s) |-> IF s[i] \in 65..90 THEN s[i] + 32 ELSE s[i]]

\* String.prototype.trim
Trim(s) ==
    LET n == Len(s)
        IsSpace(i) == s[i] \in WhiteSpace
    IN  IF \A i \in 1..n : IsSpace(i) THEN << >>
        ELSE LET leading  == CHOOSE k \in 0..n :
                                 ~IsSpace(k + 1) /\ \A m \in 1..k : IsSpace(m)
                 trailing == CHOOSE k \in 0..n :
                                 ~IsSpace(n - k) /\ \A m \in 0..(k - 1) : IsSpace(n - m)
             IN  SubSeq(s, leading + 1, n - trailing)

\* replace(/[^\w\s]/g, '')
StripPunctuation(s) ==
    SelectSeq(s, LAMBDA c : IsWordChar(c) \/ c \in WhiteSpace)

\* replace(/\s+/g, ' '): every maximal run of white space becomes one space.
\* The first character of a run is replaced by a space and the others of the
\* run are dropped.
CollapseWhiteSpace(s) ==
    LET marked == [i \in 1..Len(s) |->
                     IF s[i] \notin WhiteSpace THEN s[i]
                     ELSE IF i > 1 /\ s[i - 1] \in WhiteSpace THEN -1
                     ELSE 32]
    IN  SelectSeq(marked, LAMBDA c : c # -1)

\* aiService.ts:121
Normalize(content) ==
    Trim(CollapseWhiteSpace(StripPunctuation(ToLowerCase(content))))

\* split(/\s+/): the pieces between the maximal runs of white space; a run at
\* either end of the string leaves an empty piece there, and '' splits into
\* [''].
SplitWhiteSpace(s) ==
    LET n == Len(s)
        runStarts == {i \in 1..n : s[i] \in WhiteSpace
                                     /\ (i = 1 \/ s[i - 1] \notin WhiteSpace)}
        runEnds   == {i \in 1..n : s[i] \in WhiteSpace
                                     /\ (i = n \/ s[i + 1] \notin WhiteSpace)}
        runs      == Cardinality(runStarts)
        Nth(S, k) == CHOOSE x \in S : Cardinality({y \in S : y < x}) = k - 1
    IN  [k \in 1..(runs + 1) |->
            SubSeq(s,
                   IF k = 1 THEN 1 ELSE Nth(runEnds, k - 1) + 1,
                   IF k = runs + 1 THEN n ELSE Nth(runStarts, k) - 1)]

(***************************************************************************)
(* The 32-bit hash.  A 32-bit value is kept as its two 16-bit halves       *)
(* <<hi, lo>>, so that no intermediate result leaves the integers TLC      *)
(* computes with.                                                          *)
(***************************************************************************)
Half == 2 ^ 16

\* How many characters one level of HashLoop folds in.
HashStride == 16

\* One round of the loop of generateHash:
\*   hash = ((hash << 5) - hash) + char;  hash = hash & hash;
\* that is, 31 * hash + char reduced to 32 bits.
HashStep(h, char) ==
    LET lo == 31 * h[2] + char
        hi == 31 * h[1] + (lo \div Half)
    IN  << hi % Half, lo % Half >>

\* The loop of generateHash over normalized[i..j].
RECURSIVE HashRange(_, _, _, _)
HashRange(normalized, i, j, h) ==
    IF i > j THEN h
    ELSE HashRange(normalized, i + 1, j, HashStep(h, normalized[i]))

\* The loop of generateHash from position i on, taken HashStride characters at
\* a time.
RECURSIVE HashLoop(_, _, _)
HashLoop(normalized, i, h) ==
    IF i > Len(normalized) THEN h
    ELSE LET j    == IF i + HashStride - 1 < Len(normalized)
                     THEN i + HashStride - 1 ELSE Len(normalized)
             next == HashRange(normalized, i, j, h)
         IN  IF next[1] >= 0 THEN HashLoop(normalized, j + 1, next) ELSE next

\* Math.abs of the signed 32-bit value with halves h; the result ranges over
\* 0 .. 2^31 and is again given by its halves.
AbsInt32(h) ==
    IF h[1] < Half \div 2 THEN h
    ELSE IF h[2] = 0 THEN << Half - h[1], 0 >>
         ELSE << Half - 1 - h[1], Half - h[2] >>

\* A generateHash that does not remove the punctuation.
generateHashUnstripped(content) ==
    AbsInt32(HashLoop(Trim(CollapseWhiteSpace(ToLowerCase(content))), 1, << 0, 0 >>))

\* aiService.ts:119-129.  The base-36 rendering of the result is one-to-one,
\* so the hash string is represented by the number it renders.
generateHash(content) ==
    AbsInt32(HashLoop(Normalize(content), 1, << 0, 0 >>))

\* The two kinds of member of usedReviewHashes: the hash string itself, and
\* the hash string behind the prefix "phrase_".
WholeKey(hash) == << "", hash >>
PhraseKey(hash) == << "phrase_", hash >>

\* An extractKeyPhrases that pushes the three-word phrases only.
extractKeyPhrasesTriplesOnly(content) ==
    LET words == SplitWhiteSpace(ToLowerCase(content))
        n     == Len(words)
    IN  IF n < 3 THEN << >>
        ELSE [i \in 1..(n - 2) |->
                words[i] \o << 32 >> \o words[i + 1] \o << 32 >> \o words[i + 2]]

\* aiService.ts:154-167.  The loop pushes, for i = 0 .. words.length - 2, the
\* two words from i and then, if i < words.length - 2, the three words from
\* i: the phrases at the odd positions of the result are the pairs, the ones
\* at the even positions the triples.
extractKeyPhrases(content) ==
    LET words == SplitWhiteSpace(ToLowerCase(content))
        n     == Len(words)
        Pair(i)   == words[i] \o << 32 >> \o words[i + 1]
        Triple(i) == words[i] \o << 32 >> \o words[i + 1] \o << 32 >> \o words[i + 2]
    IN  IF n < 2 THEN << >>
        ELSE [p \in 1..(2 * n - 3) |->
                IF p % 2 = 1 THEN Pair((p + 1) \div 2) ELSE Triple(p \div 2)]

(***************************************************************************)
(* Inputs of the review generator.                                         *)
(***************************************************************************)
\* API keys: a real one, and one that is only white space.
KeyGemini == << 65, 73, 122, 97 >>
KeyOpenAI == << 115, 107, 45, 49 >>
KeyBlank  == << 32, 32 >>

\* The lists of API configurations the store may hold, in stored order.
ConfigLists ==
    LET gemini == [id |-> "gemini-1", provider |-> "gemini", apiKey |-> KeyGemini,
                   isActive |-> TRUE, priority |-> 1]
        openai == [id |-> "openai-1", provider |-> "openai", apiKey |-> KeyOpenAI,
                   isActive |-> TRUE, priority |-> 2]
        off    == [id |-> "gemini-off", provider |-> "gemini", apiKey |-> KeyGemini,
                   isActive |-> FALSE, priority |-> 0]
        blank  == [id |-> "openai-blank", provider |-> "openai", apiKey |-> KeyBlank,
                   isActive |-> TRUE, priority |-> 0]
    IN  { << gemini >>,
          << openai, off, gemini >>,
          << off, blank >> }

\* The review requests: business name, star rating and language ("" for a
\* request that names no language).
Requests ==
    { [businessName |-> NameSmit, starRating |-> 5, language |-> "English"],
      [businessName |-> NameMid,  starRating |-> 1, language |-> "Hindi"],
      [businessName |-> NameLong, starRating |-> 7, language |-> ""] }

\* aiService.ts:201-205
languageOptions == << "English", "Gujarati", "Hindi" >>

\* What a language model may answer, before the wrappers trim it.
RawTexts ==
    { TextA, TextA2, TextB, TextW, TextWMarked, TextShort, TextLong,
      << 32, 32 >> \o TextD \o << 10 >>,
      << >> }

\* What Date.now() may return, as the decimal digits it is appended as.
Timestamps ==
    { << 49, 55, 54, 50, 49, 56, 55, 52, 48, 48, 48, 48, 48 >>,
      << 49, 55, 54, 50, 49, 56, 55, 52, 48, 48, 48, 48, 49 >> }

\* The outcome of one call of the Gemini SDK: a response text, or an error
\* thrown by generateContent.
GeminiOutcomes ==
    [ok : {TRUE}, text : RawTexts] \cup {[ok |-> FALSE, text |-> << >>]}

\* The outcome of one request to the OpenAI endpoint: the HTTP status, and
\* the content of the first choice of the body, if it has one.
OpenAIOutcomes ==
    [status : {200}, hasContent : {TRUE}, content : RawTexts]
        \cup [status : {200, 429, 500}, hasContent : {FALSE}, content : {<< >>}]

(***************************************************************************)
(* State.                                                                  *)
(***************************************************************************)
VARIABLES
    usedReviewHashes,   \* the module-level Set of aiService.ts:34
    storedApiConfigs,   \* the list under API_CONFIG_KEY in localStorage, which
                        \* storage.getApiConfigurations() resolves to without
                        \* Supabase
    apiConfigTable,     \* the rows of the api_configurations table
    fallbackKey,        \* import.meta.env.VITE_GEMINI_API_KEY, << >> if not set
    pc,                 \* where the generateReview call is
    request,            \* its request argument
    maxRetries,         \* its maxRetries argument
    apiConfigs,         \* its list of active configurations
    selectedLanguage,   \* its selectedLanguage
    cfgIdx,             \* index in apiConfigs of the outer loop
    attempt,            \* the inner loop's counter
    result,             \* the GeneratedReview it returned
    \* history
    resultSource,       \* "ai", "fallback" or "none": where result came from
    llmCalls,           \* LLM generation calls issued by the current call
    called,             \* the ids of the configurations they were issued to, in order
    lastLoad,           \* how the Supabase request of the latest call of
                        \* getApiConfigurations ended; "none" without one
    lastOutcome,        \* how its latest LLM call ended: "accepted", "rejected",
                        \* "error", or "none" before the first one ended
    accepted,           \* texts accepted since the last clearUsedHashes
    returned,           \* texts returned since the last clearUsedHashes
    calls               \* generateReview calls made so far

reviewVars ==
    << usedReviewHashes, storedApiConfigs, apiConfigTable, fallbackKey, pc, request, maxRetries, apiConfigs,
       selectedLanguage, cfgIdx, attempt, result, resultSource, llmCalls,
       called, lastLoad, lastOutcome, accepted, returned, calls >>

VARIABLES
    supabaseConfigured, \* what isSupabaseConfigured() && supabase evaluates to
    localCards,         \* the card list under STORAGE_KEY in localStorage
    rows,               \* the rows of the review_cards table
    generated,          \* how many ids the table has generated
    pending,            \* the storage calls that await Supabase, oldest first
    started,            \* storage calls made so far
    \* history
    lastCall,           \* the latest storage call, how many calls had returned
                        \* when it was made, and the order of its effects
    lastReturn,         \* the latest storage call that returned, and its value
    addedCards,         \* the cards addCard has returned true for, without those
                        \* deleteCard was called for since
    migration           \* the migrateFromLocalStorage call: where it is, and its
                        \* local variables

storageVars ==
    << supabaseConfigured, localCards, rows, generated, pending, started,
       lastCall, lastReturn, addedCards, migration >>

VARIABLES
    authItem,           \* the item under AUTH_KEY in sessionStorage, "" if none
    authCalls           \* history: the calls of login and logout, in order

authVars == << authItem, authCalls >>

\* The session before the first call of auth.
AuthAtRest ==
    /\ authItem = ""
    /\ authCalls = << >>

\* No migrateFromLocalStorage call yet.
NoMigration ==
    [pc |-> "idle", served |-> FALSE, response |-> [error |-> FALSE, found |-> FALSE],
     cards |-> << >>, index |-> 0, failCount |-> 0, cleared |-> FALSE]

vars == << reviewVars, storageVars, authVars >>

NoRequest == [businessName |-> << >>, starRating |-> 0, language |-> ""]
NoResult  == [text |-> << >>, hash |-> << 0, 0 >>, language |-> "", rating |-> 0]

(***************************************************************************)
(* The uniqueness check of the review generator.                           *)
(***************************************************************************)
\* The members of usedReviewHashes that stand for a text: the key of the
\* text itself, and the keys of its key phrases.
KeysOf(content) ==
    LET keyPhrases == extractKeyPhrases(content)
    IN  [hash    |-> generateHash(content),
         whole   |-> WholeKey(generateHash(content)),
         phrases |-> {PhraseKey(generateHash(keyPhrases[p])) : p \in 1..Len(keyPhrases)}]

\* The texts a language-model wrapper may hand to generateReview.
AnswerTexts == {Trim(raw) : raw \in RawTexts}

\* KeysOf on the texts of the model, computed once.
AnswerKeys == [content \in AnswerTexts |-> KeysOf(content)]

Keys(content) ==
    IF content \in AnswerTexts THEN AnswerKeys[content] ELSE KeysOf(content)

\* aiService.ts:132-151
isReviewUnique(content) ==
    /\ Keys(content).whole \notin usedReviewHashes
    /\ \A phraseKey \in Keys(content).phrases : phraseKey \notin usedReviewHashes

\* aiService.ts:170-180: the set after markReviewAsUsed(content).
markReviewAsUsed(content) ==
    usedReviewHashes \cup {Keys(content).whole} \cup Keys(content).phrases

(***************************************************************************)
(* The API configurations.                                                 *)
(***************************************************************************)
\* A getActiveApiConfigs that keeps the stored order.
SortByStoredOrder(configs) == configs

\* Array.prototype.sort((a, b) => a.priority - b.priority), which is stable.
SortByPriority(configs) ==
    LET Rank(i) == Cardinality({j \in 1..Len(configs) :
                       \/ configs[j].priority < configs[i].priority
                       \/ configs[j].priority = configs[i].priority /\ j <= i})
    IN  [k \in 1..Len(configs) |->
            configs[CHOOSE i \in 1..Len(configs) : Rank(i) = k]]

\* storage.ts:576-584
_getLocalApiConfigs == storedApiConfigs

\* storage.ts:586-592: what localStorage holds afterwards; an error thrown
\* by setItem (writeOk is FALSE) is caught.
_saveLocalApiConfigs(configs, writeOk) == IF writeOk THEN configs ELSE storedApiConfigs

\* storage.ts:600-607
_updateLocalApiConfig(updatedConfig, writeOk) ==
    LET configs == _getLocalApiConfigs
        matches == { i \in 1..Len(configs) : configs[i].id = updatedConfig.id }
    IN  IF matches = {} THEN storedApiConfigs
        ELSE LET index == CHOOSE i \in matches : \A j \in matches : i <= j
             IN  _saveLocalApiConfigs([configs EXCEPT ![index] = updatedConfig], writeOk)

\* How the Supabase request of getApiConfigurations may end, and, when it
\* ends well, whether localStorage takes the list: there is no request
\* without Supabase.
ConfigLoads ==
    IF supabaseConfigured
    THEN { [kind |-> "ok",    writeOk |-> TRUE],
           [kind |-> "ok",    writeOk |-> FALSE],
           [kind |-> "error", writeOk |-> TRUE],
           [kind |-> "throw", writeOk |-> TRUE] }
    ELSE { [kind |-> "none",  writeOk |-> TRUE] }

\* storage.ts:906-935: whether the call throws, the list it resolves to, and
\* the list localStorage holds afterwards.
getApiConfigurations(load) ==
    IF supabaseConfigured
    THEN IF load.kind = "ok"
         THEN [threw   |-> FALSE,
               configs |-> apiConfigTable,
               local   |-> _saveLocalApiConfigs(apiConfigTable, load.writeOk)]
         ELSE [threw   |-> FALSE,
               configs |-> _getLocalApiConfigs,
               local   |-> storedApiConfigs]
    ELSE [threw |-> FALSE, configs |-> _getLocalApiConfigs, local |-> storedApiConfigs]

\* aiService.ts:61-71
FallbackGemini ==
    [id |-> "fallback", provider |-> "gemini", apiKey |-> fallbackKey,
     isActive |-> TRUE, priority |-> 1]

\* aiService.ts:51-76, given what storage.getApiConfigurations() did
getActiveApiConfigs(loaded) ==
    IF loaded.threw
    THEN IF fallbackKey # << >> THEN << FallbackGemini >> ELSE << >>
    ELSE SortByPriority(SelectSeq(loaded.configs,
             LAMBDA config : config.isActive /\ Trim(config.apiKey) # << >>))

(***************************************************************************)
(* The language-model wrappers.                                            *)
(***************************************************************************)
\* aiService.ts:79-83
generateWithGemini(outcome) ==
    IF outcome.ok THEN [ok |-> TRUE, text |-> Trim(outcome.text)]
    ELSE [ok |-> FALSE, text |-> << >>]

\* aiService.ts:86-116
generateWithOpenAI(outcome) ==
    IF outcome.status \notin 200..299 THEN [ok |-> FALSE, text |-> << >>]
    ELSE IF ~outcome.hasContent THEN [ok |-> TRUE, text |-> << >>]
    ELSE [ok |-> TRUE, text |-> Trim(outcome.content)]

(***************************************************************************)
(* The canned review.                                                      *)
(***************************************************************************)
\* " Great care!"
GreatCare == << 32, 71, 114, 101, 97, 116, 32, 99, 97, 114, 101, 33 >>

\* "..."
Ellipsis == << 46, 46, 46 >>

\* aiService.ts:404-405
languageFallbacks(req) ==
    LET ratingFallbacks ==
            IF req.starRating \in 1..Len(medicalFallbacks)
            THEN medicalFallbacks[req.starRating]
            ELSE medicalFallbacks[5]
    IN  IF req.language \in DOMAIN ratingFallbacks
        THEN ratingFallbacks[req.language]
        ELSE ratingFallbacks["English"]

\* aiService.ts:409-415
EnsureCharacterLimit(selectedFallback) ==
    LET padded == IF Len(selectedFallback) < MinChars
                  THEN selectedFallback \o GreatCare
                  ELSE selectedFallback
    IN  IF Len(padded) > MaxChars
        THEN SubSeq(padded, 1, TruncateAt) \o Ellipsis
        ELSE padded

\* aiService.ts:325-423, with randomIndex and timestamp as they were drawn.
MedicalFallbackReview(req, randomIndex, timestamp) ==
    LET template == languageFallbacks(req)[randomIndex + 1]
        selectedFallback ==
            EnsureCharacterLimit(template.pre \o req.businessName \o template.suf)
    IN  [text     |-> selectedFallback,
         hash     |-> generateHash(selectedFallback \o timestamp),
         language |-> IF req.language # "" THEN req.language ELSE "English",
         rating   |-> req.starRating]

\* MedicalFallbackReview on the requests of the model, computed once.
FallbackReviews ==
    [req \in Requests |->
        [randomIndex \in 0..(Len(languageFallbacks(req)) - 1) |->
            [timestamp \in Timestamps |->
                MedicalFallbackReview(req, randomIndex, timestamp)]]]

getMedicalFallbackReview(req, randomIndex, timestamp) ==
    FallbackReviews[req][randomIndex][timestamp]

(***************************************************************************)
(* generateReview (aiService.ts:182-323), one call at a time.  The call is *)
(* suspended only while a language model is answering; everything between *)
(* two answers runs without interruption.                                  *)
(***************************************************************************)
\* The card store before its first call, without Supabase.
StoreAtRest ==
    /\ supabaseConfigured = FALSE
    /\ localCards = << >>
    /\ rows = {}
    /\ generated = 0
    /\ pending = << >>
    /\ started = 0
    /\ lastCall = [kind |-> "none", after |-> 0, steps |-> << >>]
    /\ lastReturn = [n |-> 0, kind |-> "none", arg |-> << >>, outcome |-> "none",
                     value |-> << >>, before |-> << >>]
    /\ addedCards = {}
    /\ migration = NoMigration

\* The review generator before its first call.
ServiceAtRest ==
    /\ usedReviewHashes = {}
    /\ pc = "idle"
    /\ request = NoRequest
    /\ maxRetries = 0
    /\ apiConfigs = << >>
    /\ selectedLanguage = ""
    /\ cfgIdx = 0
    /\ attempt = 0
    /\ result = NoResult
    /\ resultSource = "none"
    /\ llmCalls = 0
    /\ called = << >>
    /\ lastLoad = "none"
    /\ lastOutcome = "none"
    /\ accepted = {}
    /\ returned = {}
    /\ calls = 0

ReviewInit ==
    /\ storedApiConfigs \in ConfigLists
    /\ apiConfigTable = << >>
    /\ fallbackKey = << >>
    /\ ServiceAtRest
    /\ StoreAtRest
    /\ AuthAtRest

\* A validation that checks the length only.
IsAcceptableLengthOnly(reviewText) ==
    /\ Len(reviewText) >= MinChars
    /\ Len(reviewText) <= MaxChars

\* aiService.ts:302: the validation of a generated text.
IsAcceptable(reviewText) ==
    /\ Len(reviewText) >= MinChars
    /\ Len(reviewText) <= MaxChars
    /\ isReviewUnique(reviewText)

\* An inner loop that runs while attempt <= maxRetries.
NextIterationOffByOne(cfg, att) ==
    IF att + 1 <= maxRetries
    THEN [done |-> FALSE, cfgIdx |-> cfg, attempt |-> att + 1]
    ELSE IF cfg < Len(apiConfigs)
    THEN [done |-> FALSE, cfgIdx |-> cfg + 1, attempt |-> 0]
    ELSE [done |-> TRUE, cfgIdx |-> cfg, attempt |-> att]

\* aiService.ts:245-246: the place in the two nested loops that follows
\* (cfg, att); done when both loops are over.
NextIteration(cfg, att) ==
    IF att + 1 < maxRetries
    THEN [done |-> FALSE, cfgIdx |-> cfg, attempt |-> att + 1]
    ELSE IF cfg < Len(apiConfigs)
    THEN [done |-> FALSE, cfgIdx |-> cfg + 1, attempt |-> 0]
    ELSE [done |-> TRUE, cfgIdx |-> cfg, attempt |-> att]

\* aiService.ts:321-322: every configuration used up its attempts.
ReturnFallback(req) ==
    \E randomIndex \in 0..(Len(languageFallbacks(req)) - 1), timestamp \in Timestamps :
        /\ result' = getMedicalFallbackReview(req, randomIndex, timestamp)
        /\ resultSource' = "fallback"
        /\ returned' = returned \cup {result'.text}
        /\ pc' = "returned"

\* A generateReview that answers the lack of configurations with the canned
\* review.
GenerateReviewNoConfigFallback(req, n, load) ==
    /\ pc # "awaiting"
    /\ calls < MaxCalls
    /\ getActiveApiConfigs(getApiConfigurations(load)) = << >>
    /\ storedApiConfigs' = getApiConfigurations(load).local
    /\ lastLoad' = load.kind
    /\ calls' = calls + 1
    /\ request' = req
    /\ maxRetries' = n
    /\ apiConfigs' = << >>
    /\ ReturnFallback(req)
    /\ llmCalls' = 0
    /\ called' = << >>
    /\ lastOutcome' = "none"
    /\ UNCHANGED << usedReviewHashes, apiConfigTable, fallbackKey, selectedLanguage, cfgIdx,
                    attempt, accepted >>
    /\ UNCHANGED << storageVars, authVars >>

\* aiService.ts:185-189: no active configuration.
GenerateReviewNoConfig(req, n, load) ==
    /\ pc # "awaiting"
    /\ calls < MaxCalls
    /\ getActiveApiConfigs(getApiConfigurations(load)) = << >>
    /\ storedApiConfigs' = getApiConfigurations(load).local
    /\ lastLoad' = load.kind
    /\ calls' = calls + 1
    /\ request' = req
    /\ maxRetries' = n
    /\ apiConfigs' = << >>
    /\ pc' = "threw"
    /\ result' = NoResult
    /\ resultSource' = "none"
    /\ llmCalls' = 0
    /\ called' = << >>
    /\ lastOutcome' = "none"
    /\ UNCHANGED << usedReviewHashes, apiConfigTable, fallbackKey, selectedLanguage, cfgIdx,
                    attempt, accepted, returned >>
    /\ UNCHANGED << storageVars, authVars >>

\* aiService.ts:182-295: the call up to its first LLM request, or, when
\* maxRetries allows no attempt, up to its return.
GenerateReview(req, n, load) ==
    /\ pc # "awaiting"
    /\ calls < MaxCalls
    /\ getActiveApiConfigs(getApiConfigurations(load)) # << >>
    /\ storedApiConfigs' = getApiConfigurations(load).local
    /\ lastLoad' = load.kind
    /\ calls' = calls + 1
    /\ request' = req
    /\ maxRetries' = n
    /\ apiConfigs' = getActiveApiConfigs(getApiConfigurations(load))
    /\ \E random \in 1..Len(languageOptions) :
          selectedLanguage' = IF req.language # "" THEN req.language
                              ELSE languageOptions[random]
    /\ cfgIdx' = 1
    /\ attempt' = 0
    /\ lastOutcome' = "none"
    /\ IF 0 < n
       THEN /\ llmCalls' = 1
            /\ called' = << getActiveApiConfigs(getApiConfigurations(load))[1].id >>
            /\ pc' = "awaiting"
            /\ result' = NoResult
            /\ resultSource' = "none"
            /\ UNCHANGED returned
       ELSE /\ llmCalls' = 0
            /\ called' = << >>
            /\ ReturnFallback(req)
    /\ UNCHANGED << usedReviewHashes, apiConfigTable, fallbackKey, accepted >>
    /\ UNCHANGED << storageVars, authVars >>

\* aiService.ts:303-310: the text is marked as used and returned.
AcceptReview(reviewText) ==
    /\ usedReviewHashes' = markReviewAsUsed(reviewText)
    /\ result' = [text     |-> reviewText,
                  hash     |-> Keys(reviewText).hash,
                  language |-> selectedLanguage,
                  rating   |-> request.starRating]
    /\ resultSource' = "ai"
    /\ accepted' = accepted \cup {reviewText}
    /\ returned' = returned \cup {reviewText}
    /\ pc' = "returned"
    /\ lastOutcome' = "accepted"
    /\ UNCHANGED << cfgIdx, attempt, llmCalls, called >>

\* aiService.ts:313-322: the attempt is over without a review: on to the next
\* attempt, the next configuration, or the canned review.
NextAttempt(outcome) ==
    /\ lastOutcome' = outcome
    /\ UNCHANGED << usedReviewHashes, accepted >>
    /\ LET next == NextIteration(cfgIdx, attempt)
       IN  IF next.done
           THEN /\ ReturnFallback(request)
                /\ UNCHANGED << cfgIdx, attempt, llmCalls, called >>
           ELSE /\ cfgIdx' = next.cfgIdx
                /\ attempt' = next.attempt
                /\ llmCalls' = llmCalls + 1
                /\ called' = Append(called, apiConfigs[next.cfgIdx].id)
                /\ pc' = "awaiting"
                /\ UNCHANGED << result, resultSource, returned >>

\* A generateReview in which an error of the LLM call is not caught.
AfterLLMCallUncaught(answer) ==
    /\ IF ~answer.ok
       THEN /\ pc' = "threw"
            /\ lastOutcome' = "error"
            /\ UNCHANGED << usedReviewHashes, accepted, cfgIdx, attempt, llmCalls, called,
                            result, resultSource, returned >>
       ELSE IF IsAcceptable(answer.text)
       THEN AcceptReview(answer.text)
       ELSE NextAttempt("rejected")
    /\ UNCHANGED << storedApiConfigs, apiConfigTable, fallbackKey, lastLoad, request, maxRetries, apiConfigs,
                    selectedLanguage, calls >>

\* aiService.ts:287-318: the body of the inner loop after the LLM call ended,
\* with a text (answer.ok) or with an error.
AfterLLMCall(answer) ==
    /\ IF ~answer.ok
       THEN NextAttempt("error")
       ELSE IF IsAcceptable(answer.text)
       THEN AcceptReview(answer.text)
       ELSE NextAttempt("rejected")
    /\ UNCHANGED << storedApiConfigs, apiConfigTable, fallbackKey, lastLoad, request, maxRetries, apiConfigs,
                    selectedLanguage, calls >>

GeminiAnswers(outcome) ==
    /\ pc = "awaiting"
    /\ apiConfigs[cfgIdx].provider = "gemini"
    /\ AfterLLMCall(generateWithGemini(outcome))
    /\ UNCHANGED << storageVars, authVars >>

OpenAIAnswers(outcome) ==
    /\ pc = "awaiting"
    /\ apiConfigs[cfgIdx].provider = "openai"
    /\ AfterLLMCall(generateWithOpenAI(outcome))
    /\ UNCHANGED << storageVars, authVars >>

\* aiService.ts:625-627
clearUsedHashes ==
    /\ usedReviewHashes # {}
    /\ usedReviewHashes' = {}
    /\ accepted' = {}
    /\ returned' = {}
    /\ UNCHANGED << storedApiConfigs, apiConfigTable, fallbackKey, lastLoad, pc, request, maxRetries, apiConfigs,
                    selectedLanguage, cfgIdx, attempt, result, resultSource,
                    llmCalls, called, lastOutcome, calls >>
    /\ UNCHANGED << storageVars, authVars >>

ReviewNext ==
    \/ \E req \in Requests, n \in 0..MaxRetriesBound, load \in ConfigLoads :
          GenerateReviewNoConfig(req, n, load)
    \/ \E req \in Requests, n \in 0..MaxRetriesBound, load \in ConfigLoads :
          GenerateReview(req, n, load)
    \/ \E outcome \in GeminiOutcomes : GeminiAnswers(outcome)
    \/ \E outcome \in OpenAIOutcomes : OpenAIAnswers(outcome)
    \/ clearUsedHashes

ReviewSpec == ReviewInit /\ [][ReviewNext]_reviewVars

\* The configurations updateApiConfiguration is called with: the stored
\* ones, switched off.
SwitchedOff ==
    UNION { { [configs[i] EXCEPT !.isActive = FALSE] : i \in 1..Len(configs) } :
              configs \in ConfigLists }

\* storage.ts:962-994 without Supabase: the configuration is replaced in
\* localStorage, and true is returned.  The administrator edits the
\* configurations while no review is being generated.
updateApiConfiguration(config) ==
    /\ pc # "awaiting"
    /\ ~supabaseConfigured
    /\ \E i \in 1..Len(storedApiConfigs) :
          storedApiConfigs[i].id = config.id /\ storedApiConfigs[i] # config
    /\ \E writeOk \in BOOLEAN : storedApiConfigs' = _updateLocalApiConfig(config, writeOk)
    /\ UNCHANGED << usedReviewHashes, apiConfigTable, fallbackKey, lastLoad, pc, request,
                    maxRetries, apiConfigs, selectedLanguage, cfgIdx, attempt, result,
                    resultSource, llmCalls, called, lastOutcome, accepted, returned,
                    calls >>
    /\ UNCHANGED << storageVars, authVars >>

AdminNext ==
    \/ \E req \in Requests, n \in 0..MaxRetriesBound, load \in ConfigLoads :
          GenerateReviewNoConfig(req, n, load)
    \/ \E req \in Requests, n \in 0..MaxRetriesBound, load \in ConfigLoads :
          GenerateReview(req, n, load)
    \/ \E outcome \in GeminiOutcomes : GeminiAnswers(outcome)
    \/ \E outcome \in OpenAIOutcomes : OpenAIAnswers(outcome)
    \/ clearUsedHashes
    \/ \E config \in SwitchedOff : updateApiConfiguration(config)

\* The review generator with one stored configuration, which is active and
\* has a key.
AdminInit ==
    /\ storedApiConfigs \in
          UNION { { << configs[i] >> : i \in { j \in 1..Len(configs) :
                        configs[j].isActive /\ Trim(configs[j].apiKey) # << >> } } :
                  configs \in ConfigLists }
    /\ apiConfigTable = << >>
    /\ fallbackKey = << >>
    /\ ServiceAtRest
    /\ StoreAtRest
    /\ AuthAtRest

\* The review generator with an administrator who edits the configurations.
AdminSpec == AdminInit /\ [][AdminNext]_reviewVars

\* The review generator with the configurations in Supabase: the table
\* holds some, localStorage holds none yet, and the environment names a
\* Gemini key.
RemoteConfigInit ==
    /\ storedApiConfigs = << >>
    /\ apiConfigTable \in { configs \in ConfigLists : Len(configs) > 2 }
    /\ fallbackKey = KeyGemini
    /\ ServiceAtRest
    /\ supabaseConfigured = TRUE
    /\ localCards = << >>
    /\ rows = {}
    /\ generated = 0
    /\ pending = << >>
    /\ started = 0
    /\ lastCall = [kind |-> "none", after |-> 0, steps |-> << >>]
    /\ lastReturn = [n |-> 0, kind |-> "none", arg |-> << >>, outcome |-> "none",
                     value |-> << >>, before |-> << >>]
    /\ addedCards = {}
    /\ migration = NoMigration
    /\ AuthAtRest

RemoteConfigSpec == RemoteConfigInit /\ [][ReviewNext]_reviewVars

(***************************************************************************)
(* Properties of generateReview.                                           *)
(***************************************************************************)
\* A step in which a generateReview call returns to its caller.
ReviewReturns ==
    /\ pc' = "returned"
    /\ pc = "awaiting" \/ calls' = calls + 1

\* The canned reviews getMedicalFallbackReview may build for a request.
CannedReviews(req) ==
    {getMedicalFallbackReview(req, randomIndex, timestamp) :
        randomIndex \in 0..(Len(languageFallbacks(req)) - 1), timestamp \in Timestamps}

\* C1 as stated: one generateReview(request, N) call issues at most N LLM
\* generation calls in total, and returns the canned review if none of them
\* is accepted.
C1_AtMostNCallsInTotal ==
    /\ llmCalls <= maxRetries
    /\ pc = "returned" /\ lastOutcome # "accepted" => result \in CannedReviews(request)

\* C1 amended: one generateReview(request, N) call issues at most N LLM
\* generation calls for each active configuration, N times their number in
\* total, and returns the canned review if none of them is accepted, which
\* is after all of these calls were made.
C1_AtMostNCallsPerConfig ==
    /\ llmCalls <= maxRetries * Len(apiConfigs)
    /\ pc = "awaiting" => /\ attempt < maxRetries
                          /\ llmCalls = (cfgIdx - 1) * maxRetries + attempt + 1
    /\ pc = "returned" /\ lastOutcome # "accepted" =>
          /\ resultSource = "fallback"
          /\ result \in CannedReviews(request)
          /\ llmCalls = maxRetries * Len(apiConfigs)

\* The canned review is returned after two configurations used two attempts each.
C1_Witness ==
    /\ pc = "returned"
    /\ resultSource = "fallback"
    /\ Len(apiConfigs) = 2
    /\ maxRetries = 2
    /\ llmCalls = 4

\* C2: generateReview returns an LLM-produced text only if the text has 155
\* to 170 characters and isReviewUnique held for it when it was accepted.
C2_OnlyValidatedTextReturned ==
    [][ReviewReturns /\ resultSource' = "ai" =>
           /\ result'.text \in AnswerTexts
           /\ Len(result'.text) \in MinChars..MaxChars
           /\ isReviewUnique(result'.text)]_reviewVars

\* A second text was accepted, in a call whose first answer was turned down.
C2_Witness ==
    /\ pc = "returned"
    /\ resultSource = "ai"
    /\ llmCalls = 2
    /\ Cardinality(accepted) = 2

\* The number of iterations of the two loops that are still to run.
IterationsLeft ==
    IF pc = "awaiting" THEN maxRetries * Len(apiConfigs) - llmCalls + 1 ELSE 0

\* C3: with an active configuration generateReview does not throw and returns
\* a GeneratedReview; an error of an LLM call uses up exactly one iteration of
\* the loops, and every LLM call that ends brings the return closer.
C3_ErrorsAreCaught ==
    /\ [](pc = "threw" => apiConfigs = << >>)
    /\ [](pc = "returned" => resultSource \in {"ai", "fallback"} /\ result.text # << >>)
    /\ [][(pc = "awaiting" /\ (llmCalls' # llmCalls \/ pc' # pc)) =>
             /\ pc' \in {"awaiting", "returned"}
             /\ IterationsLeft' < IterationsLeft
             /\ (lastOutcome' = "error" =>
                   \/ pc' = "awaiting" /\ IterationsLeft' = IterationsLeft - 1
                   \/ /\ pc' = "returned"
                      /\ resultSource' = "fallback"
                      /\ IterationsLeft = 1)]_reviewVars

\* The OpenAI endpoint answered with an error status on the last attempt, and
\* the call returned the canned review.
C3_Witness ==
    /\ pc = "returned"
    /\ lastOutcome = "error"
    /\ resultSource = "fallback"
    /\ apiConfigs[cfgIdx].provider = "openai"
    /\ llmCalls = 2

\* C4: the text of every GeneratedReview that generateReview returns has 155
\* to 170 characters.
C4_ReturnedTextInBand ==
    pc = "returned" => Len(result.text) \in MinChars..MaxChars

\* C5: between two clearUsedHashes calls no two generateReview calls return
\* the same text.
C5_EachReviewIsUnique ==
    [][ReviewReturns => result'.text \notin returned]_reviewVars

\* The normalization C6 speaks of: lower-casing, removal of punctuation,
\* collapsing of white space.
Normalized(text) == CollapseWhiteSpace(StripPunctuation(ToLowerCase(text)))

NormalizedAnswers == [text \in AnswerTexts |-> Normalized(text)]

\* C6: until clearUsedHashes is called, isReviewUnique turns down every text
\* that equals an accepted text after normalization.
C6_NormalizedDuplicateRejected ==
    \A old \in accepted, candidate \in AnswerTexts :
        NormalizedAnswers[candidate] = NormalizedAnswers[old] => ~isReviewUnique(candidate)

\* TextA was accepted by an earlier call; the running call would have TextA2,
\* which differs from it in case, punctuation and spacing, turned down.
C6_Witness ==
    /\ calls = 2
    /\ pc = "awaiting"
    /\ TextA \in accepted
    /\ TextA2 # TextA
    /\ NormalizedAnswers[TextA2] = NormalizedAnswers[TextA]
    /\ ~isReviewUnique(TextA2)

\* The runs of two or three consecutive white-space-separated words of a
\* text, each normalized.
WordRuns(text) ==
    LET words == SplitWhiteSpace(text)
        Join(i, k) == IF k = 2
                      THEN words[i] \o << 32 >> \o words[i + 1]
                      ELSE words[i] \o << 32 >> \o words[i + 1] \o << 32 >> \o words[i + 2]
    IN  {Normalize(Join(i, k)) : i \in 1..(Len(words) - 1), k \in {2}}
          \cup {Normalize(Join(i, k)) : i \in 1..(Len(words) - 2), k \in {3}}

AnswerWordRuns == [text \in AnswerTexts |-> WordRuns(text)]

\* C7: a text with a run of two or three consecutive words that, normalized,
\* is such a run of an accepted text, is turned down by isReviewUnique.
C7_SharedPhraseRejected ==
    \A old \in accepted, candidate \in AnswerTexts :
        AnswerWordRuns[candidate] \cap AnswerWordRuns[old] # {} => ~isReviewUnique(candidate)

\* TextA was accepted; TextB shares the two words "nursing staff" with it and
\* nothing else, and the running call would have it turned down.
C7_Witness ==
    /\ calls = 2
    /\ pc = "awaiting"
    /\ TextA \in accepted
    /\ Cardinality(AnswerWordRuns[TextB] \cap AnswerWordRuns[TextA]) = 1
    /\ Keys(TextB).whole \notin usedReviewHashes
    /\ ~isReviewUnique(TextB)

(***************************************************************************)
(* The card store (src/src/utils/storage.ts, the module of lines 429 on).  *)
(*                                                                         *)
(* A card keeps the fields the store itself reads: id, description (one    *)
(* of the columns that are null in the table when empty on the card) and   *)
(* createdAt, the key the table is read by.  A time is the number of its   *)
(* instant; ISO strings of one format are ordered as their instants are.   *)
(***************************************************************************)
\* "3f2b8c1e-7a4d-4c6b-9e2f-0a1b2c3d4e5f": an id of the shape isValidUuid accepts
IdUuid ==
    << 51, 102, 50, 98, 56, 99, 49, 101, 45, 55, 97, 52,
       100, 45, 52, 99, 54, 98, 45, 57, 101, 50, 102, 45,
       48, 97, 49, 98, 50, 99, 51, 100, 52, 101, 53, 102 >>

\* "k3j9x2m1q": an id that is no UUID
IdShort ==
    << 107, 51, 106, 57, 120, 50, 109, 49, 113 >>

\* "0b9d4e6a-1c2f-4a7b-8d3e-5f6a7b8c9d01"
IdGenerated1 ==
    << 48, 98, 57, 100, 52, 101, 54, 97, 45, 49, 99, 50,
       102, 45, 52, 97, 55, 98, 45, 56, 100, 51, 101, 45,
       53, 102, 54, 97, 55, 98, 56, 99, 57, 100, 48, 49 >>

\* "7E5C1A2B-3D4F-4E6A-B1C2-D3E4F5A6B7C8"
IdGenerated2 ==
    << 55, 69, 53, 67, 49, 65, 50, 66, 45, 51, 68, 52,
       70, 45, 52, 69, 54, 65, 45, 66, 49, 67, 50, 45,
       68, 51, 69, 52, 70, 53, 65, 54, 66, 55, 67, 56 >>

\* "c4d5e6f7-0a1b-4c2d-a3e4-f5a6b7c8d9e0"
IdGenerated3 ==
    << 99, 52, 100, 53, 101, 54, 102, 55, 45, 48, 97, 49,
       98, 45, 52, 99, 50, 100, 45, 97, 51, 101, 52, 45,
       102, 53, 97, 54, 98, 55, 99, 56, 100, 57, 101, 48 >>

\* The ids the table generates for rows inserted without one, in order.
GeneratedIds == << IdGenerated1, IdGenerated2, IdGenerated3 >>

\* The cards the callers pass: one with a UUID, the same one with its
\* description cleared, and one with an id that is no UUID, as generateId()
\* of the forms makes them.
\* The slug of a card is generateSlug(businessName): the two cards are of
\* one business name, and the edit renames the business.
CardClinic ==
    [id |-> IdUuid, slug |-> "smit-hospital", description |-> "Dental clinic",
     createdAt |-> 2]

CardClinicEdited ==
    [id |-> IdUuid, slug |-> "smit-clinic", description |-> "", createdAt |-> 2]

CardLocal ==
    [id |-> IdShort, slug |-> "smit-hospital", description |-> "", createdAt |-> 1]

\* The cards addCard is called with.
NewCards == { CardClinic, CardLocal }

\* The cards updateCard is called with.
EditedCards == { CardClinicEdited, CardLocal }

CardIds == { IdUuid, IdShort }

\* A nullable text column of the table.
Null == [isNull |-> TRUE, text |-> ""]

NotNull(text) == [isNull |-> FALSE, text |-> text]

\* text || null
OrNull(text) == IF text = "" THEN Null ELSE NotNull(text)

\* column || ''
OrEmpty(column) == IF column.isNull THEN "" ELSE column.text

\* [0-9a-f] under the i flag
IsHexDigit(c) == c \in 48..57 \/ c \in 97..102 \/ c \in 65..70

\* storage.ts:437-440
isValidUuid(id) ==
    /\ Len(id) = 36
    /\ \A i \in 1..36 :
          IF i \in {9, 14, 19, 24} THEN id[i] = 45
          ELSE IF i = 15 THEN id[i] \in 49..53
          ELSE IF i = 20 THEN id[i] \in {56, 57, 97, 98, 65, 66}
          ELSE IsHexDigit(id[i])

\* storage.ts:443-456
transformDbRowToCard(row) ==
    [id          |-> row.id,
     slug        |-> row.slug,
     description |-> OrEmpty(row.description),
     createdAt   |-> row.created_at]

\* storage.ts:459-480: the id is part of the insert only if it is a UUID.
transformCardToDbInsert(card) ==
    [verb        |-> "upsert",
     hasId       |-> isValidUuid(card.id),
     id          |-> IF isValidUuid(card.id) THEN card.id ELSE << >>,
     slug        |-> card.slug,
     description |-> OrNull(card.description),
     created_at  |-> card.createdAt]

\* storage.ts:516-527, with the .eq('id', updatedCard.id) of storage.ts:713
transformCardToDbUpdate(card) ==
    [verb        |-> "update",
     hasId       |-> TRUE,
     id          |-> card.id,
     slug        |-> card.slug,
     description |-> OrNull(card.description),
     created_at  |-> 0]

\* .delete().eq('id', cardId)
DeleteRequest(cardId) ==
    [verb |-> "delete", hasId |-> TRUE, id |-> cardId, slug |-> "", description |-> Null,
     created_at |-> 0]

\* .select('*').order('created_at', { ascending: false })
SelectRequest ==
    [verb |-> "select", hasId |-> FALSE, id |-> << >>, slug |-> "", description |-> Null,
     created_at |-> 0]

NoResponse == [error |-> FALSE, data |-> << >>]

\* The lists a select of the table may answer: every row once, newest first,
\* rows of one instant in any order.
Select(table) ==
    { data \in [1..Cardinality(table) -> table] :
        /\ \A i, j \in 1..Cardinality(table) : i # j => data[i] # data[j]
        /\ \A i, j \in 1..Cardinality(table) :
              i < j => data[i].created_at >= data[j].created_at }

\* .upsert([insertData], { onConflict: 'id' }) of a row with the id newId
Upsert(table, insertData, newId) ==
    { row \in table : row.id # newId }
        \cup { [id          |-> newId,
                slug        |-> insertData.slug,
                description |-> insertData.description,
                created_at  |-> insertData.created_at] }

\* .update(updateData).eq('id', id)
Update(table, updateData) ==
    { IF row.id = updateData.id
      THEN [row EXCEPT !.slug = updateData.slug,
                       !.description = updateData.description]
      ELSE row : row \in table }

\* .delete().eq('id', id)
Delete(table, id) == { row \in table : row.id # id }

\* (data || []).map(transformDbRowToCard)
MapRowsToCards(data) == [i \in 1..Len(data) |-> transformDbRowToCard(data[i])]

\* storage.ts:531-539
_getLocalCards == localCards

\* storage.ts:541-547: what localStorage holds afterwards; an error thrown
\* by setItem (writeOk is FALSE) is caught, and the list stays as it was.
_saveLocalCards(cards, writeOk) == IF writeOk THEN cards ELSE localCards

\* storage.ts:549-553
_addLocalCard(card, writeOk) ==
    _saveLocalCards(<< card >> \o _getLocalCards, writeOk)

\* storage.ts:555-562
_updateLocalCard(updatedCard, writeOk) ==
    LET cards   == _getLocalCards
        matches == { i \in 1..Len(cards) : cards[i].id = updatedCard.id }
    IN  IF matches = {} THEN localCards
        ELSE LET index == CHOOSE i \in matches : \A j \in matches : i <= j
             IN  _saveLocalCards([cards EXCEPT ![index] = updatedCard], writeOk)

\* storage.ts:564-568
_deleteLocalCard(cardId, writeOk) ==
    LET IsOther(card) == card.id # cardId
    IN  _saveLocalCards(SelectSeq(_getLocalCards, IsOther), writeOk)

StorageInit ==
    /\ storedApiConfigs = << >>
    /\ apiConfigTable = << >>
    /\ fallbackKey = << >>
    /\ ServiceAtRest
    /\ supabaseConfigured \in BOOLEAN
    /\ localCards \in { << >>, << CardLocal >> }
    /\ rows = {}
    /\ generated = 0
    /\ pending = << >>
    /\ started = 0
    /\ lastCall = [kind |-> "none", after |-> 0, steps |-> << >>]
    /\ lastReturn = [n |-> 0, kind |-> "none", arg |-> << >>, outcome |-> "none",
                     value |-> << >>, before |-> << >>]
    /\ addedCards = {}
    /\ migration = NoMigration
    /\ AuthAtRest

WriteKinds == { "addCard", "updateCard", "deleteCard" }

FetchKinds == { "getCards", "syncData" }

\* The record of a call that returns now, with the list localStorage holds
\* as the call resumes.
Return(kind, arg, outcome, value) ==
    [n |-> lastReturn.n + 1, kind |-> kind, arg |-> arg, outcome |-> outcome,
     value |-> value, before |-> localCards]

\* The request of a call is sent, and the call awaits its response.
Await(kind, arg, dbRequest) ==
    pending' = Append(pending, [kind     |-> kind,
                                arg      |-> arg,
                                request  |-> dbRequest,
                                pc       |-> "requested",
                                response |-> NoResponse])

\* A call may start: the run has calls left, and room for one more request.
MayStart(needsRoom) ==
    /\ started < MaxStorageCalls
    /\ needsRoom => Len(pending) < MaxPending

\* The cards addCard has returned true for, and deleteCard was not called
\* for since, after a call: returns tells whether the call returns now.
AfterCall(kind, arg, returns) ==
    IF kind = "deleteCard" THEN { card \in addedCards : card.id # arg }
    ELSE IF kind = "addCard" /\ returns THEN addedCards \cup { arg }
    ELSE addedCards

\* The rest of a write call that ignores isSupabaseConfigured().
ThenSyncAlways(kind, arg, dbRequest) ==
    /\ Await(kind, arg, dbRequest)
    /\ addedCards' = AfterCall(kind, arg, FALSE)
    /\ lastCall' = [kind |-> kind, after |-> lastReturn.n, steps |-> Append(<< "localStorage" >>, "supabase")]
    /\ UNCHANGED lastReturn

\* The rest of a write call after its local step (storage.ts:660-688,
\* 703-732, 747-772): up to the await of the Supabase request, or up to the
\* return when Supabase is not configured.
ThenSync(kind, arg, dbRequest) ==
    IF supabaseConfigured
    THEN /\ Await(kind, arg, dbRequest)
         /\ addedCards' = AfterCall(kind, arg, FALSE)
         /\ lastCall' = [kind |-> kind, after |-> lastReturn.n, steps |-> Append(<< "localStorage" >>, "supabase")]
         /\ UNCHANGED lastReturn
    ELSE /\ lastCall' = [kind |-> kind, after |-> lastReturn.n, steps |-> << "localStorage" >>]
         /\ lastReturn' = Return(kind, arg, "local", TRUE)
         /\ addedCards' = AfterCall(kind, arg, TRUE)
         /\ UNCHANGED pending

\* storage.ts:652-693
addCard(card) ==
    /\ MayStart(supabaseConfigured)
    /\ started' = started + 1
    /\ \E writeOk \in BOOLEAN : localCards' = _addLocalCard(card, writeOk)
    /\ ThenSync("addCard", card, transformCardToDbInsert(card))
    /\ UNCHANGED << supabaseConfigured, rows, generated >>
    /\ UNCHANGED << reviewVars, migration, authVars >>

\* storage.ts:695-737
updateCard(updatedCard) ==
    /\ MayStart(supabaseConfigured)
    /\ started' = started + 1
    /\ \E writeOk \in BOOLEAN : localCards' = _updateLocalCard(updatedCard, writeOk)
    /\ ThenSync("updateCard", updatedCard, transformCardToDbUpdate(updatedCard))
    /\ UNCHANGED << supabaseConfigured, rows, generated >>
    /\ UNCHANGED << reviewVars, migration, authVars >>

\* storage.ts:739-777
deleteCard(cardId) ==
    /\ MayStart(supabaseConfigured)
    /\ started' = started + 1
    /\ \E writeOk \in BOOLEAN : localCards' = _deleteLocalCard(cardId, writeOk)
    /\ ThenSync("deleteCard", cardId, DeleteRequest(cardId))
    /\ UNCHANGED << supabaseConfigured, rows, generated >>
    /\ UNCHANGED << reviewVars, migration, authVars >>

\* storage.ts:615-650, up to the await of storage.ts:621, or up to the
\* return of storage.ts:644.  getCards has no argument: the history keeps,
\* in its place, the cards that were added when the call was made.
getCards ==
    /\ MayStart(supabaseConfigured)
    /\ started' = started + 1
    /\ IF supabaseConfigured
       THEN /\ Await("getCards", addedCards, SelectRequest)
            /\ lastCall' = [kind |-> "getCards", after |-> lastReturn.n, steps |-> << "supabase" >>]
            /\ UNCHANGED lastReturn
       ELSE /\ lastCall' = [kind |-> "getCards", after |-> lastReturn.n, steps |-> << >>]
            /\ lastReturn' = Return("getCards", addedCards, "local", _getLocalCards)
            /\ UNCHANGED pending
    /\ UNCHANGED << supabaseConfigured, localCards, rows, generated, addedCards >>
    /\ UNCHANGED << reviewVars, migration, authVars >>

\* storage.ts:1023-1050, up to the await of storage.ts:1031, or up to the
\* return of storage.ts:1027.
syncData ==
    /\ MayStart(supabaseConfigured)
    /\ started' = started + 1
    /\ IF supabaseConfigured
       THEN /\ Await("syncData", << >>, SelectRequest)
            /\ lastCall' = [kind |-> "syncData", after |-> lastReturn.n, steps |-> << "supabase" >>]
            /\ UNCHANGED lastReturn
       ELSE /\ lastCall' = [kind |-> "syncData", after |-> lastReturn.n, steps |-> << >>]
            /\ lastReturn' = Return("syncData", << >>, "skipped", << >>)
            /\ UNCHANGED pending
    /\ UNCHANGED << supabaseConfigured, localCards, rows, generated, addedCards >>
    /\ UNCHANGED << reviewVars, migration, authVars >>

\* Supabase serves the request of the i-th awaiting call: it carries the
\* request out and answers { data }, or refuses it and answers { error }.
SupabaseResponds(i, refused) ==
    LET dbRequest == pending[i].request
        inserts   == dbRequest.verb = "upsert" /\ ~dbRequest.hasId
    IN  /\ pending[i].pc = "requested"
        /\ IF refused
           THEN /\ pending' = [pending EXCEPT ![i].pc = "responded",
                                              ![i].response = [error |-> TRUE, data |-> << >>]]
                /\ UNCHANGED << rows, generated >>
           ELSE /\ inserts => generated < Len(GeneratedIds)
                /\ rows' = CASE dbRequest.verb = "select" -> rows
                             [] dbRequest.verb = "delete" -> Delete(rows, dbRequest.id)
                             [] dbRequest.verb = "update" -> Update(rows, dbRequest)
                             [] dbRequest.verb = "upsert" ->
                                  Upsert(rows, dbRequest,
                                         IF dbRequest.hasId THEN dbRequest.id
                                         ELSE GeneratedIds[generated + 1])
                /\ generated' = IF inserts THEN generated + 1 ELSE generated
                /\ \E data \in (IF dbRequest.verb = "select" THEN Select(rows) ELSE { << >> }) :
                      pending' = [pending EXCEPT ![i].pc = "responded",
                                                 ![i].response = [error |-> FALSE, data |-> data]]
        /\ UNCHANGED << supabaseConfigured, localCards, started, lastCall, lastReturn,
                        addedCards >>
        /\ UNCHANGED << reviewVars, migration, authVars >>

\* The list of awaiting calls without its i-th.
Settle(i) == pending' = [j \in 1..(Len(pending) - 1) |->
                            IF j < i THEN pending[j] ELSE pending[j + 1]]

\* A write call that reports the error of Supabase to its caller.
ResumeWriteReporting(call) ==
    /\ lastReturn' = Return(call.kind, call.arg, IF call.response.error THEN "error" ELSE "ok",
                            ~call.response.error)
    /\ UNCHANGED localCards

\* storage.ts:672-679, 716-723, 756-763: addCard, updateCard and deleteCard
\* after the await.
ResumeWrite(call) ==
    /\ lastReturn' = Return(call.kind, call.arg, IF call.response.error THEN "error" ELSE "ok", TRUE)
    /\ UNCHANGED localCards

\* A fetch that answers an error of Supabase with an empty list.
ResumeFetchErrorEmpty(call) ==
    IF call.response.error
    THEN /\ lastReturn' = Return(call.kind, call.arg, "error", << >>)
         /\ UNCHANGED localCards
    ELSE LET supabaseCards == MapRowsToCards(call.response.data)
         IN  \E writeOk \in BOOLEAN :
                /\ localCards' = _saveLocalCards(supabaseCards, writeOk)
                /\ lastReturn' = Return(call.kind, call.arg, IF writeOk THEN "ok" ELSE "unsaved",
                                        supabaseCards)

\* A fetch that keeps the cards localStorage alone holds.
ResumeFetchMerging(call) ==
    IF call.response.error
    THEN /\ lastReturn' = Return(call.kind, call.arg, "error",
                                 IF call.kind = "getCards" THEN _getLocalCards ELSE << >>)
         /\ UNCHANGED localCards
    ELSE LET supabaseCards == MapRowsToCards(call.response.data)
             IsLocalOnly(card) == \A i \in 1..Len(supabaseCards) : supabaseCards[i].id # card.id
         IN  \E writeOk \in BOOLEAN :
                /\ localCards' = _saveLocalCards(supabaseCards \o SelectSeq(localCards, IsLocalOnly),
                                                 writeOk)
                /\ lastReturn' = Return(call.kind, call.arg, IF writeOk THEN "ok" ELSE "unsaved",
                                        supabaseCards)

\* storage.ts:626-637 and 1036-1046: getCards and syncData after the await.
\* The value of a syncData call, which returns nothing, is the list it read.
ResumeFetch(call) ==
    IF call.response.error
    THEN /\ lastReturn' = Return(call.kind, call.arg, "error",
                                 IF call.kind = "getCards" THEN _getLocalCards ELSE << >>)
         /\ UNCHANGED localCards
    ELSE LET supabaseCards == MapRowsToCards(call.response.data)
         IN  \E writeOk \in BOOLEAN :
                /\ localCards' = _saveLocalCards(supabaseCards, writeOk)
                /\ lastReturn' = Return(call.kind, call.arg, IF writeOk THEN "ok" ELSE "unsaved",
                                        supabaseCards)

\* The response of the i-th awaiting call arrives.
Resume(i) ==
    /\ pending[i].pc = "responded"
    /\ Settle(i)
    /\ IF pending[i].kind \in WriteKinds
       THEN ResumeWrite(pending[i])
       ELSE ResumeFetch(pending[i])
    /\ addedCards' = AfterCall(pending[i].kind, pending[i].arg, TRUE)
    /\ UNCHANGED << supabaseConfigured, rows, generated, started, lastCall >>
    /\ UNCHANGED << reviewVars, migration, authVars >>

\* The await of the i-th awaiting call throws, before or after Supabase has
\* served the request: the catch blocks of storage.ts:638-641, 680-684,
\* 724-728, 764-768 and 1047-1049.
ConnectionFails(i) ==
    /\ Settle(i)
    /\ addedCards' = AfterCall(pending[i].kind, pending[i].arg, TRUE)
    /\ lastReturn' = Return(pending[i].kind, pending[i].arg, "throw",
                            IF pending[i].kind \in WriteKinds THEN TRUE
                            ELSE IF pending[i].kind = "getCards" THEN _getLocalCards
                            ELSE << >>)
    /\ UNCHANGED << supabaseConfigured, localCards, rows, generated, started, lastCall >>
    /\ UNCHANGED << reviewVars, migration, authVars >>

StorageNext ==
    \/ \E card \in NewCards : addCard(card)
    \/ \E updatedCard \in EditedCards : updateCard(updatedCard)
    \/ \E cardId \in CardIds : deleteCard(cardId)
    \/ getCards
    \/ syncData
    \/ \E i \in 1..Len(pending), refused \in BOOLEAN : SupabaseResponds(i, refused)
    \/ \E i \in 1..Len(pending) : Resume(i)
    \/ \E i \in 1..Len(pending) : ConnectionFails(i)

StorageSpec == StorageInit /\ [][StorageNext]_storageVars

(***************************************************************************)
(* Properties of the card store.                                           *)
(***************************************************************************)
\* A storage call returns in this step.
StorageReturns == lastReturn'.n # lastReturn.n

\* C8: in addCard, updateCard and deleteCard the change of localStorage is
\* attempted before the Supabase request is issued, and the request is
\* issued only when Supabase is configured.
C8_LocalStepBeforeRequest ==
    /\ ~supabaseConfigured => pending = << >>
    /\ lastCall.kind \in WriteKinds =>
          /\ lastCall.steps[1] = "localStorage"
          /\ \A k \in 1..Len(lastCall.steps) :
                lastCall.steps[k] = "supabase" => supabaseConfigured /\ k > 1

\* A write call has changed localStorage and awaits Supabase.
C8_Witness ==
    /\ lastCall.kind = "deleteCard"
    /\ lastCall.steps = << "localStorage", "supabase" >>
    /\ localCards = << >>
    /\ \E i \in 1..Len(pending) :
          pending[i].kind = "deleteCard" /\ pending[i].pc = "requested"

\* C9: addCard, updateCard and deleteCard return true whether Supabase
\* succeeds, answers an error or throws, and also without Supabase; the
\* return after a failure of Supabase leaves localStorage as the local step
\* made it.
C9_WritesReturnTrue ==
    [][StorageReturns /\ lastReturn'.kind \in WriteKinds =>
          /\ lastReturn'.value = TRUE
          /\ lastReturn'.outcome \in {"ok", "error", "throw"} => localCards' = localCards
      ]_storageVars

\* addCard has returned true after Supabase refused the insert, and the card
\* is in localStorage.
C9_Witness ==
    /\ lastReturn.kind = "addCard"
    /\ lastReturn.outcome = "error"
    /\ lastReturn.value = TRUE
    /\ localCards # << >>
    /\ localCards[1] = CardClinic
    /\ rows = {}

\* A getCards or syncData call returns in this step after a response of
\* Supabase without an error.
FetchSucceeds ==
    /\ StorageReturns
    /\ lastReturn'.kind \in FetchKinds
    /\ lastReturn'.outcome \in {"ok", "unsaved"}

RowsWithSlug(table, slug) == { row \in table : row.slug = slug }

\* storage.ts:851 and 890-898: the loop takes the next card, or is over and
\* localStorage is cleared if no card failed.
MigrationMovesOn(failCount) ==
    IF migration.index < Len(migration.cards)
    THEN /\ migration' = [migration EXCEPT !.pc = "checking", !.served = FALSE,
                                           !.index = @ + 1, !.failCount = failCount]
         /\ UNCHANGED localCards
    ELSE /\ migration' = [migration EXCEPT !.pc = "returned", !.served = FALSE,
                                           !.failCount = failCount,
                                           !.cleared = (failCount = 0)]
         /\ localCards' = IF failCount = 0 THEN << >> ELSE localCards

\* storage.ts:821-833: up to the await of the connection test, or up to the
\* return of storage.ts:824.
migrateFromLocalStorage ==
    /\ migration.pc = "idle"
    /\ started < MaxStorageCalls
    /\ started' = started + 1
    /\ migration' = [NoMigration EXCEPT
                        !.pc = IF supabaseConfigured THEN "testing" ELSE "returned"]
    /\ UNCHANGED << supabaseConfigured, localCards, rows, generated, pending, lastCall,
                    lastReturn, addedCards >>
    /\ UNCHANGED << reviewVars, authVars >>

\* Supabase serves the request the migration awaits: the connection test
\* (storage.ts:830-833), the search of a card's slug with maybeSingle(), which
\* answers an error for more than one row (storage.ts:854-858), or the upsert
\* of a card (storage.ts:873-875).
SupabaseServesMigration(refused) ==
    LET card       == migration.cards[migration.index]
        insertData == transformCardToDbInsert(card)
        matches    == RowsWithSlug(rows, card.slug)
        inserts    == migration.pc = "inserting" /\ ~refused
    IN  /\ migration.pc \in {"testing", "checking", "inserting"}
        /\ ~migration.served
        /\ inserts /\ ~insertData.hasId => generated < Len(GeneratedIds)
        /\ rows' = IF inserts
                   THEN Upsert(rows, insertData,
                               IF insertData.hasId THEN insertData.id
                               ELSE GeneratedIds[generated + 1])
                   ELSE rows
        /\ generated' = IF inserts /\ ~insertData.hasId THEN generated + 1 ELSE generated
        /\ migration' =
              [migration EXCEPT
                  !.served = TRUE,
                  !.response =
                      IF migration.pc = "checking"
                      THEN [error |-> refused \/ Cardinality(matches) > 1,
                            found |-> ~refused /\ Cardinality(matches) = 1]
                      ELSE [error |-> refused, found |-> FALSE]]
        /\ UNCHANGED << supabaseConfigured, localCards, pending, started, lastCall,
                        lastReturn, addedCards >>
        /\ UNCHANGED << reviewVars, authVars >>

\* The response of the request the migration awaits arrives: storage.ts:835-846
\* after the connection test, 860-870 after the search, 877-883 after the
\* upsert.
MigrationResumes ==
    /\ migration.served
    /\ CASE migration.pc = "testing" ->
              /\ migration' =
                    IF migration.response.error \/ _getLocalCards = << >>
                    THEN [migration EXCEPT !.pc = "returned", !.served = FALSE]
                    ELSE [migration EXCEPT !.pc = "checking", !.served = FALSE,
                                           !.cards = _getLocalCards, !.index = 1]
              /\ UNCHANGED localCards
         [] migration.pc = "checking" ->
              IF migration.response.error
              THEN MigrationMovesOn(migration.failCount + 1)
              ELSE IF migration.response.found
              THEN MigrationMovesOn(migration.failCount)
              ELSE /\ migration' = [migration EXCEPT !.pc = "inserting", !.served = FALSE]
                   /\ UNCHANGED localCards
         [] migration.pc = "inserting" ->
              MigrationMovesOn(IF migration.response.error
                               THEN migration.failCount + 1
                               ELSE migration.failCount)
    /\ UNCHANGED << supabaseConfigured, rows, generated, pending, started, lastCall,
                    lastReturn, addedCards >>
    /\ UNCHANGED << reviewVars, authVars >>

\* The await of the migration throws, before or after Supabase has served
\* the request: the catch of storage.ts:899-902 for the connection test, the
\* catch of storage.ts:884-887 for a card.
MigrationConnectionFails ==
    /\ migration.pc \in {"testing", "checking", "inserting"}
    /\ IF migration.pc = "testing"
       THEN /\ migration' = [migration EXCEPT !.pc = "returned", !.served = FALSE]
            /\ UNCHANGED localCards
       ELSE MigrationMovesOn(migration.failCount + 1)
    /\ UNCHANGED << supabaseConfigured, rows, generated, pending, started, lastCall,
                    lastReturn, addedCards >>
    /\ UNCHANGED << reviewVars, authVars >>

MigrationNext ==
    \/ \E card \in NewCards : addCard(card)
    \/ \E updatedCard \in EditedCards : updateCard(updatedCard)
    \/ \E cardId \in CardIds : deleteCard(cardId)
    \/ getCards
    \/ syncData
    \/ \E i \in 1..Len(pending), refused \in BOOLEAN : SupabaseResponds(i, refused)
    \/ \E i \in 1..Len(pending) : Resume(i)
    \/ \E i \in 1..Len(pending) : ConnectionFails(i)
    \/ migrateFromLocalStorage
    \/ \E refused \in BOOLEAN : SupabaseServesMigration(refused)
    \/ MigrationResumes
    \/ MigrationConnectionFails

\* The card store with the migration that the application starts.
MigrationSpec == StorageInit /\ [][MigrationNext]_storageVars

\* The table holds the card: a row with the fields of the card, under the
\* id of the card if that is a UUID, under any id if not.
HoldsCard(table, card) ==
    \E row \in table :
        /\ row.slug = card.slug
        /\ row.description = OrNull(card.description)
        /\ row.created_at = card.createdAt
        /\ isValidUuid(card.id) => row.id = card.id

\* The migration returns in this step.
MigrationReturns == migration.pc # "returned" /\ migration'.pc = "returned"

\* C15: migrateFromLocalStorage clears the list of localStorage only if every
\* card it read from localStorage is in Supabase when it returns, and leaves
\* localStorage as it is if a search or an insert failed.
C15_ClearsOnlyIfAllMigrated ==
    [][MigrationReturns =>
          /\ migration'.cleared =>
                \A i \in 1..Len(migration'.cards) : HoldsCard(rows', migration'.cards[i])
          /\ migration'.failCount > 0 => localCards' = localCards
      ]_storageVars

\* C11: getCards returns the list of localStorage, and leaves localStorage
\* as it is, whenever Supabase is not configured, answers an error, or the
\* request throws; every getCards call ends with a returned list.
C11_GetCardsFallsBackToLocal ==
    [][StorageReturns /\ lastReturn'.kind = "getCards"
          /\ lastReturn'.outcome \in {"local", "error", "throw"} =>
          /\ lastReturn'.value = localCards
          /\ localCards' = localCards
      ]_storageVars

\* getCards has returned the card of localStorage after an error of Supabase.
C11_Witness ==
    /\ lastReturn.kind = "getCards"
    /\ lastReturn.outcome = "error"
    /\ lastReturn.value = << CardLocal >>
    /\ localCards = << CardLocal >>

(***************************************************************************)
(* More properties of the review generator.                                *)
(***************************************************************************)
\* A configuration getActiveApiConfigs keeps: active, with a key that is
\* not blank.
IsUsable(config) == config.isActive /\ Trim(config.apiKey) # << >>

\* The stored configuration with the id.
StoredConfig(id) ==
    storedApiConfigs[CHOOSE i \in 1..Len(storedApiConfigs) : storedApiConfigs[i].id = id]

\* C12: the LLM calls of a generateReview call go to configurations that
\* are active and have a key that is not blank, and a configuration is
\* called only after every such configuration with a lower priority number
\* has been called maxRetries times.
C12_TriedInPriorityOrder ==
    \A k \in 1..Len(called) :
        /\ \E i \in 1..Len(storedApiConfigs) : storedApiConfigs[i].id = called[k]
        /\ IsUsable(StoredConfig(called[k]))
        /\ \A i \in 1..Len(storedApiConfigs) :
              (/\ IsUsable(storedApiConfigs[i])
               /\ storedApiConfigs[i].priority < StoredConfig(called[k]).priority)
              => Cardinality({j \in 1..(k - 1) : called[j] = storedApiConfigs[i].id})
                    = maxRetries

\* The configuration of priority 2, stored first, is called after the two
\* attempts of the configuration of priority 1; the inactive one of
\* priority 0 is not called.
C12_Witness ==
    /\ pc = "awaiting"
    /\ maxRetries = 2
    /\ called = << "gemini-1", "gemini-1", "openai-1" >>
    /\ storedApiConfigs[1].id = "openai-1"

\* A generateReview call is made in this step while no stored configuration
\* is both active and has a key that is not blank.
CalledWithoutUsableConfig ==
    /\ calls' = calls + 1
    /\ \A i \in 1..Len(storedApiConfigs) : ~IsUsable(storedApiConfigs[i])

\* C13: when no stored configuration is both active and has a key that is
\* not blank, generateReview throws: it calls no LLM, returns no review, not
\* the canned one either, and leaves the set of used hashes as it is.
C13_ThrowsWithoutUsableConfig ==
    [][CalledWithoutUsableConfig =>
          /\ pc' = "threw"
          /\ llmCalls' = 0
          /\ called' = << >>
          /\ result' = NoResult
          /\ resultSource' = "none"
          /\ returned' = returned
          /\ usedReviewHashes' = usedReviewHashes
      ]_reviewVars

\* generateReview has thrown for lack of a configuration while the set of
\* used hashes holds those of an accepted review.
C13_Witness ==
    /\ pc = "threw"
    /\ calls = 2
    /\ usedReviewHashes # {}
    /\ accepted # {}
    /\ \A i \in 1..Len(storedApiConfigs) : ~IsUsable(storedApiConfigs[i])

\* C14: when the load of the API configurations from Supabase fails and
\* VITE_GEMINI_API_KEY is set, generateReview works with the single
\* configuration 'Fallback Gemini' of priority 1, and calls Gemini with it.
C14_EnvironmentFallback ==
    (lastLoad \in {"error", "throw"} /\ fallbackKey # << >>) =>
        /\ pc # "threw"
        /\ apiConfigs = << FallbackGemini >>
        /\ maxRetries > 0 => called # << >> /\ called[1] = "fallback"

\* The list holds the card: an entry of its id, or, for a card whose id is
\* not a UUID, the entry of the row the table made of it under an id of its
\* own.
Lists(list, card) ==
    \E i \in 1..Len(list) :
        \/ list[i].id = card.id
        \/ /\ ~isValidUuid(card.id)
           /\ \E k \in 1..Len(GeneratedIds) : list[i].id = GeneratedIds[k]
           /\ list[i].createdAt = card.createdAt

\* C17: a card for which addCard has returned true is in the list of every
\* getCards call made later, until deleteCard is called with its id, also
\* when the insert of the card failed and the getCards call succeeds against
\* Supabase.
C17_AddedCardIsReturned ==
    [][StorageReturns /\ lastReturn'.kind = "getCards" =>
          \A card \in lastReturn'.arg \cap addedCards : Lists(lastReturn'.value, card)
      ]_storageVars

\* getCards has succeeded against Supabase after an addCard whose insert had
\* failed: the card, which localStorage held, is not in the list, and no
\* longer in localStorage.
C17_InsertFailedThenFetched ==
    /\ lastReturn.kind = "getCards"
    /\ lastReturn.outcome = "ok"
    /\ lastReturn.arg = { CardClinic }
    /\ addedCards = { CardClinic }
    /\ lastReturn.before = << CardClinic >>
    /\ lastReturn.value = << >>
    /\ localCards = << >>
    /\ rows = {}

\* C18: whenever addCard returns true, the card is stored in localStorage or
\* in Supabase, also when the write to localStorage and the insert both
\* fail.  Stated for an addCard that is the only call made so far, so that
\* no other call has removed the card.
C18_AddedCardIsStored ==
    [][(/\ StorageReturns
        /\ lastReturn'.kind = "addCard"
        /\ lastReturn'.value = TRUE
        /\ started' = 1)
          => Lists(localCards', lastReturn'.arg) \/ HoldsCard(rows', lastReturn'.arg)
      ]_storageVars

\* addCard has returned true after the write to localStorage and the insert
\* both failed: the card is in neither store.
C18_BothFailed ==
    /\ lastReturn.kind = "addCard"
    /\ lastReturn.arg = CardClinic
    /\ lastReturn.outcome = "error"
    /\ lastReturn.value = TRUE
    /\ started = 1
    /\ localCards = << >>
    /\ rows = {}

\* C19: after addCard(c) and then deleteCard(c.id), both completed with
\* Supabase answering without an error, Supabase holds no row of c and
\* localStorage no entry of c, whether the id of c is a UUID or not.  Stated
\* for the two calls alone, deleteCard made after addCard had returned.
C19_AddThenDeleteLeavesNothing ==
    [][(/\ StorageReturns
        /\ started' = 2
        /\ lastReturn.kind = "addCard"
        /\ lastReturn.outcome = "ok"
        /\ lastCall.kind = "deleteCard"
        /\ lastCall.after = 1
        /\ lastReturn'.kind = "deleteCard"
        /\ lastReturn'.outcome = "ok"
        /\ lastReturn'.arg = lastReturn.arg.id)
          => /\ ~HoldsCard(rows', lastReturn.arg)
             /\ ~Lists(localCards', lastReturn.arg)
      ]_storageVars

\* addCard and deleteCard have completed without an error for a card whose
\* id is not a UUID: the row the insert made under an id of the table is
\* still there.
C19_RowRemains ==
    /\ started = 2
    /\ lastCall.kind = "deleteCard"
    /\ lastCall.after = 1
    /\ lastReturn.n = 2
    /\ lastReturn.kind = "deleteCard"
    /\ lastReturn.outcome = "ok"
    /\ lastReturn.arg = CardLocal.id
    /\ localCards = << >>
    /\ rows = { [id |-> IdGenerated1, slug |-> CardLocal.slug, description |-> Null,
                 created_at |-> CardLocal.createdAt] }

\* C20: if addCard runs while migrateFromLocalStorage is in progress, after
\* the migration has read the list of localStorage and before it finishes,
\* the clearing of localStorage that ends the migration removes no card that
\* Supabase does not hold.  The cards of localStorage that are not in the
\* list the migration read are the ones added since.
C20_ClearKeepsCardsAddedMeanwhile ==
    [][MigrationReturns /\ migration'.cleared =>
          \A i \in 1..Len(localCards) :
              (\A k \in 1..Len(migration.cards) : migration.cards[k] # localCards[i])
                  => HoldsCard(rows', localCards[i])
      ]_storageVars

\* The migration has cleared localStorage while the insert of a card added
\* meanwhile was still awaited, and Supabase then refused that insert: the
\* card is in neither store.
C20_AddedCardLost ==
    /\ migration.pc = "returned"
    /\ migration.cleared
    /\ migration.cards = << CardLocal >>
    /\ lastReturn.kind = "addCard"
    /\ lastReturn.arg = CardClinic
    /\ lastReturn.outcome = "error"
    /\ lastReturn.value = TRUE
    /\ localCards = << >>
    /\ ~HoldsCard(rows, CardClinic)

(***************************************************************************)
(* The login of the administrator (src/src/utils/auth.ts).                 *)
(***************************************************************************)
\* auth.ts:2-5, without VITE_ADMIN_MOBILE and VITE_ADMIN_PASSWORD
FIXED_CREDENTIALS == [mobile |-> "9426479677", password |-> "yash@123"]

\* The mobile numbers and the passwords that are entered.
Mobiles == { FIXED_CREDENTIALS.mobile, "9426479678", "" }

Passwords == { FIXED_CREDENTIALS.password, "Yash@123", "" }

\* A login that looks at the mobile number only.
loginByMobile(mobile, password, writeOk) ==
    /\ Len(authCalls) < MaxAuthCalls
    /\ IF mobile = FIXED_CREDENTIALS.mobile
       THEN IF writeOk
            THEN /\ authItem' = "true"
                 /\ authCalls' = Append(authCalls, [op |-> "login", mobile |-> mobile,
                                                    password |-> password,
                                                    result |-> "true"])
            ELSE /\ UNCHANGED authItem
                 /\ authCalls' = Append(authCalls, [op |-> "login", mobile |-> mobile,
                                                    password |-> password,
                                                    result |-> "threw"])
       ELSE /\ writeOk
            /\ UNCHANGED authItem
            /\ authCalls' = Append(authCalls, [op |-> "login", mobile |-> mobile,
                                               password |-> password,
                                               result |-> "false"])
    /\ UNCHANGED << reviewVars, storageVars >>

\* auth.ts:8-14; sessionStorage.setItem throws if writeOk is FALSE, and login
\* with it.
login(mobile, password, writeOk) ==
    /\ Len(authCalls) < MaxAuthCalls
    /\ IF mobile = FIXED_CREDENTIALS.mobile /\ password = FIXED_CREDENTIALS.password
       THEN IF writeOk
            THEN /\ authItem' = "true"
                 /\ authCalls' = Append(authCalls, [op |-> "login", mobile |-> mobile,
                                                    password |-> password,
                                                    result |-> "true"])
            ELSE /\ UNCHANGED authItem
                 /\ authCalls' = Append(authCalls, [op |-> "login", mobile |-> mobile,
                                                    password |-> password,
                                                    result |-> "threw"])
       ELSE /\ writeOk
            /\ UNCHANGED authItem
            /\ authCalls' = Append(authCalls, [op |-> "login", mobile |-> mobile,
                                               password |-> password,
                                               result |-> "false"])
    /\ UNCHANGED << reviewVars, storageVars >>

\* auth.ts:16-18
logout ==
    /\ Len(authCalls) < MaxAuthCalls
    /\ authItem' = ""
    /\ authCalls' = Append(authCalls, [op |-> "logout", mobile |-> "", password |-> "",
                                       result |-> ""])
    /\ UNCHANGED << reviewVars, storageVars >>

\* auth.ts:20-22
isAuthenticated == authItem = "true"

AuthInit ==
    /\ storedApiConfigs = << >>
    /\ apiConfigTable = << >>
    /\ fallbackKey = << >>
    /\ ServiceAtRest
    /\ StoreAtRest
    /\ AuthAtRest

AuthNext ==
    \/ \E mobile \in Mobiles, password \in Passwords, writeOk \in BOOLEAN :
          login(mobile, password, writeOk)
    \/ logout

AuthSpec == AuthInit /\ [][AuthNext]_authVars

\* The call is a login with the fixed credentials that returned true.
IsGoodLogin(call) ==
    /\ call.op = "login"
    /\ call.mobile = FIXED_CREDENTIALS.mobile
    /\ call.password = FIXED_CREDENTIALS.password
    /\ call.result = "true"

\* A login with the fixed credentials has returned true and logout was not
\* called since.
LoggedIn ==
    \E i \in 1..Len(authCalls) :
        /\ IsGoodLogin(authCalls[i])
        /\ \A j \in (i + 1)..Len(authCalls) : authCalls[j].op # "logout"

\* A login with a pair other than the fixed credentials has not returned
\* false.
OtherPairAccepted ==
    \E i \in 1..Len(authCalls) :
        /\ authCalls[i].op = "login"
        /\ \/ authCalls[i].mobile # FIXED_CREDENTIALS.mobile
           \/ authCalls[i].password # FIXED_CREDENTIALS.password
        /\ authCalls[i].result # "false"

\* C16: after any sequence of login and logout calls, isAuthenticated() is
\* true exactly when a login with the fixed mobile number and the fixed
\* password has returned true and no logout was called since; a login with
\* another pair returns false, and leaves the session as it was.
C16_AuthenticatedIffLoggedIn ==
    /\ []((isAuthenticated <=> LoggedIn) /\ ~OtherPairAccepted)
    /\ [][(/\ Len(authCalls') > Len(authCalls)
           /\ authCalls'[Len(authCalls')].result = "false")
             => authItem' = authItem]_authVars

\* A login with the fixed mobile number and a wrong password, after a login
\* with the fixed credentials, has left the administrator logged in.
C16_Witness ==
    /\ Len(authCalls) = 3
    /\ authCalls[1].op = "logout"
    /\ IsGoodLogin(authCalls[2])
    /\ authCalls[3].op = "login"
    /\ authCalls[3].mobile = FIXED_CREDENTIALS.mobile
    /\ authCalls[3].password = "Yash@123"
    /\ authCalls[3].result = "false"
    /\ isAuthenticated
=============================================================================
